---- MODULE Spec2Model ----
(***************************************************************************)
(* The for-fix-sake plugin: the code-block processor, the two acquisition  *)
(* paths (fetchIssues over the GitHub API, fetchIssuesLocally over a       *)
(* downloaded archive), the in-memory result cache and the per-repository  *)
(* snapshot records.                                                       *)
(*                                                                         *)
(* A string is a sequence of one-character strings, so that split, join    *)
(* and template concatenation are computed as the code computes them.      *)
(* Every await of the code is a step boundary: an action is the code that  *)
(* runs between two awaits of one processor invocation.                    *)
(***************************************************************************)
EXTENDS Integers, Sequences, FiniteSets, TLC

VARIABLES
  settings,   \* this.settings
  cache,      \* this.cache: key -> [timestamp, data]
  repoCache,  \* this.repoCache: repo -> [latestCommit, downloadPath, extractPath, timestamp]
  now,        \* Date.now()
  inv,        \* the processor invocations in flight, one record per slot
  started,    \* number of invocations started so far
  head,       \* GitHub: commit at the head of the default branch
  files,      \* the file system: path -> [writers, data]
  trees,      \* the file system: extracted directory -> commit of the snapshot
  run,        \* which inputs the run draws from: the name of a scope
  acq,        \* for the properties: cache key -> when its acquisitions began and succeeded
  scan,       \* one scan for keywords: the snapshot, the keywords and the Matches found
  block       \* one code block: its source text and what the processor reads from it

program == <<settings, cache, repoCache, now, inv, started, head, files, trees, run, acq>>

vars == <<settings, cache, repoCache, now, inv, started, head, files, trees, run, acq, scan,
         block>>

(***************************************************************************)
(* Bounds of the model.                                                    *)
(***************************************************************************)
MaxStarts == 2       \* invocations of the processor in one run
MaxTicks == 3        \* clock readings after the first
MaxRedirects == 2    \* redirect responses one download may receive
MaxBodyLen == 5      \* bytes of an archive body that are modelled

\* the code blocks that may be processed at the same time
Slots == {1, 2}

(***************************************************************************)
(* Strings.                                                                *)
(***************************************************************************)
Undefined == <<"undefined">>

RECURSIVE SplitFrom(_, _, _)
SplitFrom(s, sep, cur) ==
  IF s = <<>> THEN <<cur>>
  ELSE IF Head(s) = sep THEN <<cur>> \o SplitFrom(Tail(s), sep, <<>>)
  ELSE SplitFrom(Tail(s), sep, Append(cur, Head(s)))

Split(s, sep) == SplitFrom(s, sep, <<>>)

RECURSIVE Join(_, _)
Join(list, sep) ==
  IF list = <<>> THEN <<>>
  ELSE IF Len(list) = 1 THEN list[1]
  ELSE list[1] \o <<sep>> \o Join(Tail(list), sep)

At(arr, n) == IF n <= Len(arr) THEN arr[n] ELSE Undefined

Falsy(x) == x = <<>> \/ x = Undefined

Owner(repo) == At(Split(repo, "/"), 1)

RepoName(repo) == At(Split(repo, "/"), 2)

ValidFormat(repo) == ~Falsy(Owner(repo)) /\ ~Falsy(RepoName(repo))

CacheKeyOfRepoOnly(repo, keywords) == repo \o <<"-">>

CacheKey(repo, keywords) == repo \o <<"-">> \o Join(keywords, ",")

RateLimitKey(repo) == <<"r", "a", "t", "e", "l", "i", "m", "i", "t", "-">> \o repo

(***************************************************************************)
(* Inputs of the model: what a code block may name and what the world may  *)
(* answer.                                                                 *)
(***************************************************************************)
Repos ==
  { <<"a", "/", "b">>, <<"a", "/", "b", "/", "c">>, <<"a", "/", "/", "b">>,
    <<"/", "b">>, <<"a", "/">>, <<"a">>, <<>> }

KeywordLists == { << <<"T">> >>, << <<"T">>, <<"F">> >> }

CacheExpiryValues == {5, 10}

Tokens == { <<>>, <<"g">> }

ClockSteps == {150000}

ApiErrors == {"http404", "ratelimit", "network"}

DefaultBranch == <<"m">>

(***************************************************************************)
(* Values.                                                                 *)
(***************************************************************************)
NoOut == [tag |-> "none"]

\* no scan under way, no code block being read
NoScan == [pc |-> "none"]

NoBlock == [pc |-> "none"]

Results(by, repo, keywords, commit) ==
  [tag |-> "results", by |-> by, repo |-> repo, keywords |-> keywords, commit |-> commit]

Error(origin, kind) == [tag |-> "error", origin |-> origin, kind |-> kind]

ErrStatus(e) ==
  CASE e.kind = "http404" -> 404
    [] e.kind = "ratelimit" -> 403
    [] e.kind = "ratelimit-cached" -> 403
    [] OTHER -> 0

ErrMentionsRateLimit(e) == e.kind \in {"ratelimit", "ratelimit-cached"}

(***************************************************************************)
(* Scopes: the inputs one run draws from.                                  *)
(***************************************************************************)
HttpStatuses == {200, 301, 302, 404, 500}

NoBody == [bytes |-> <<>>, big |-> FALSE, zipOk |-> FALSE, commit |-> ""]

GoodZip == [bytes |-> <<80, 75, 3, 4>>, big |-> TRUE, zipOk |-> TRUE, commit |-> ""]

BrokenZip == [bytes |-> <<80, 75, 3, 4>>, big |-> TRUE, zipOk |-> FALSE, commit |-> ""]

HtmlPage == [bytes |-> <<60, 33>>, big |-> TRUE, zipOk |-> FALSE, commit |-> ""]

ClockEnd == MaxTicks * (CHOOSE d \in ClockSteps : \A e \in ClockSteps : e <= d)

\* the inputs of Spec: every action of the model, one code block at a time
FullScope ==
  [repos |-> {<<"a", "/", "b">>, <<>>}, keywordLists |-> {<< <<"T">> >>},
   forces |-> BOOLEAN, slots |-> {1}, starts |-> MaxStarts,
   apiErrors |-> {"ratelimit"}, statuses |-> {200, 302, 404}, locations |-> {TRUE},
   redirects |-> 1, bodies |-> {GoodZip, HtmlPage},
   tokens |-> Tokens, enabledValues |-> BOOLEAN, expiries |-> CacheExpiryValues,
   steps |-> {300000}, clockEnd |-> 300000]

\* the inputs of SpecFlow: the paths through the processor
FlowScope ==
  [repos |-> {<<"a", "/", "b">>, <<"a">>}, keywordLists |-> KeywordLists,
   forces |-> BOOLEAN, slots |-> Slots, starts |-> MaxStarts,
   apiErrors |-> ApiErrors, statuses |-> {200}, locations |-> {FALSE},
   redirects |-> 0, bodies |-> {GoodZip, BrokenZip, HtmlPage},
   tokens |-> {<<>>}, enabledValues |-> {TRUE}, expiries |-> {5},
   steps |-> {}, clockEnd |-> 0]

\* the inputs of SpecCache: one cache key, read while time passes and caching is
\* switched on and off
CacheScope ==
  [repos |-> {<<"a", "/", "b">>}, keywordLists |-> {<< <<"T">> >>},
   forces |-> BOOLEAN, slots |-> Slots, starts |-> MaxStarts,
   apiErrors |-> {}, statuses |-> {200}, locations |-> {FALSE},
   redirects |-> 0, bodies |-> {GoodZip},
   tokens |-> {<<>>}, enabledValues |-> BOOLEAN, expiries |-> {5},
   steps |-> ClockSteps, clockEnd |-> ClockEnd]

\* the inputs of SpecWindow: one cache key with caching enabled, over more than
\* one expiry window
WindowScope ==
  [repos |-> {<<"a", "/", "b">>}, keywordLists |-> {<< <<"T">> >>},
   forces |-> BOOLEAN, slots |-> Slots, starts |-> MaxStarts + 1,
   apiErrors |-> {"network"}, statuses |-> {200}, locations |-> {FALSE},
   redirects |-> 0, bodies |-> {GoodZip},
   tokens |-> {<<>>}, enabledValues |-> {TRUE}, expiries |-> {5},
   steps |-> ClockSteps, clockEnd |-> ClockEnd]

\* the inputs of SpecSnapshot: one repository acquired again, unchanged or after
\* a push, with the result cache disabled or expired by one step of the clock
SnapshotScope ==
  [repos |-> {<<"a", "/", "b">>}, keywordLists |-> {<< <<"T">> >>},
   forces |-> {FALSE}, slots |-> Slots, starts |-> MaxStarts,
   apiErrors |-> {}, statuses |-> {200}, locations |-> {FALSE},
   redirects |-> 0, bodies |-> {GoodZip, BrokenZip},
   tokens |-> {<<>>}, enabledValues |-> BOOLEAN, expiries |-> {5},
   steps |-> {300000}, clockEnd |-> ClockEnd]

\* the byte values an archive body is made of: those of the signature, and zero
Bytes == {0, 3, 4, 75, 80}

\* the byte sequences of length n or less
RECURSIVE ByteSeqs(_)
ByteSeqs(n) ==
  IF n = 0 THEN {<<>>}
  ELSE LET shorter == ByteSeqs(n - 1)
       IN shorter \cup {Append(b, x) : b \in {t \in shorter : Len(t) = n - 1}, x \in Bytes}

\* what a server may send as the archive: every beginning of a body, a body of
\* less than MaxBodyLen bytes being a whole file of less than 100 bytes
ArchiveBodies ==
  {body \in [bytes : ByteSeqs(MaxBodyLen), big : BOOLEAN, zipOk : BOOLEAN, commit : {""}] :
     /\ body.big => Len(body.bytes) = MaxBodyLen
     /\ body.zipOk => body.big /\ SubSeq(body.bytes, 1, 4) = <<80, 75, 3, 4>>}

\* the inputs of SpecSignature: one download at a time, of every archive body
SignatureScope ==
  [repos |-> {<<"a", "/", "b">>, <<"a">>}, keywordLists |-> {<< <<"T">> >>},
   forces |-> {FALSE}, slots |-> {1}, starts |-> MaxStarts,
   apiErrors |-> {}, statuses |-> {200}, locations |-> {FALSE},
   redirects |-> 0, bodies |-> ArchiveBodies,
   tokens |-> {<<>>}, enabledValues |-> {FALSE}, expiries |-> {5},
   steps |-> {}, clockEnd |-> 0]

\* the inputs of SpecDownload: every response status, with and without a
\* Location header, redirect after redirect
DownloadScope ==
  [repos |-> {<<"a", "/", "b">>, <<"a">>}, keywordLists |-> {<< <<"T">> >>},
   forces |-> {FALSE}, slots |-> Slots, starts |-> MaxStarts,
   apiErrors |-> {}, statuses |-> HttpStatuses, locations |-> BOOLEAN,
   redirects |-> MaxRedirects, bodies |-> {GoodZip, HtmlPage},
   tokens |-> {<<>>}, enabledValues |-> {FALSE}, expiries |-> {5},
   steps |-> {}, clockEnd |-> 0]

\* the inputs of SpecFormat: repository identifiers of every shape
FormatScope ==
  [repos |-> Repos, keywordLists |-> {<< <<"T">> >>},
   forces |-> BOOLEAN, slots |-> Slots, starts |-> MaxStarts,
   apiErrors |-> {"network"}, statuses |-> {200}, locations |-> {FALSE},
   redirects |-> 0, bodies |-> {GoodZip},
   tokens |-> {<<>>}, enabledValues |-> {TRUE}, expiries |-> {5},
   steps |-> {}, clockEnd |-> 0]

\* the inputs of SpecKeys: one repository, its keywords in either order, caching
\* enabled and no time passing
KeysScope ==
  [repos |-> {<<"a", "/", "b">>},
   keywordLists |-> {<< <<"T">>, <<"F">> >>, << <<"F">>, <<"T">> >>},
   forces |-> BOOLEAN, slots |-> Slots, starts |-> MaxStarts + 1,
   apiErrors |-> {}, statuses |-> {200}, locations |-> {FALSE},
   redirects |-> 0, bodies |-> {GoodZip},
   tokens |-> {<<>>}, enabledValues |-> {TRUE}, expiries |-> {5},
   steps |-> {}, clockEnd |-> 0]

\* the inputs of SpecCollide: repositories and keywords with '-' in their names,
\* caching enabled and no time passing
CollideScope ==
  [repos |-> {<<"a", "/", "b", "-", "c">>, <<"a", "/", "b">>},
   keywordLists |-> {<< <<"d">> >>, << <<"c", "-", "d">> >>},
   forces |-> {FALSE}, slots |-> Slots, starts |-> MaxStarts,
   apiErrors |-> {}, statuses |-> {200}, locations |-> {FALSE},
   redirects |-> 0, bodies |-> {GoodZip},
   tokens |-> {<<>>}, enabledValues |-> {TRUE}, expiries |-> {5},
   steps |-> {}, clockEnd |-> 0]

\* the inputs of SpecRelocate: one code block at a time, caching off, the
\* repository cache directory changed and cleared between invocations
RelocateScope ==
  [repos |-> {<<"a", "/", "b">>, <<"a">>}, keywordLists |-> {<< <<"T">> >>},
   forces |-> {FALSE}, slots |-> {1}, starts |-> MaxStarts,
   apiErrors |-> {}, statuses |-> {200}, locations |-> {FALSE},
   redirects |-> 0, bodies |-> {GoodZip},
   tokens |-> {<<>>}, enabledValues |-> {FALSE}, expiries |-> {5},
   steps |-> {}, clockEnd |-> 0]

\* the inputs of SpecExpiry: one cache key with caching enabled, the expiry
\* setting changed while entries are stored
ExpiryScope ==
  [repos |-> {<<"a", "/", "b">>}, keywordLists |-> {<< <<"T">> >>},
   forces |-> BOOLEAN, slots |-> {1}, starts |-> MaxStarts,
   apiErrors |-> {}, statuses |-> {200}, locations |-> {FALSE},
   redirects |-> 0, bodies |-> {GoodZip},
   tokens |-> {<<>>}, enabledValues |-> {TRUE}, expiries |-> CacheExpiryValues,
   steps |-> ClockSteps, clockEnd |-> ClockEnd]

Scope ==
  CASE run = "full" -> FullScope
    [] run = "expiry" -> ExpiryScope
    [] run = "relocate" -> RelocateScope
    [] run = "collide" -> CollideScope
    [] run = "keys" -> KeysScope
    [] run = "flow" -> FlowScope
    [] run = "cache" -> CacheScope
    [] run = "window" -> WindowScope
    [] run = "snapshot" -> SnapshotScope
    [] run = "format" -> FormatScope
    [] run = "signature" -> SignatureScope
    [] run = "download" -> DownloadScope

(***************************************************************************)
(* Paths of fetchIssuesLocally.                                            *)
(***************************************************************************)
PathJoin(a, b) == a \o <<"/">> \o b

RepoDir(repo) == PathJoin(settings.tempDir, Owner(repo) \o <<"-">> \o RepoName(repo))

DownloadPath(repo, branch) ==
  PathJoin(RepoDir(repo), RepoName(repo) \o <<"-">> \o branch \o <<".", "z", "i", "p">>)

ExtractPath(repo, branch) == PathJoin(RepoDir(repo), RepoName(repo) \o <<"-">> \o branch)

(***************************************************************************)
(* The result cache.                                                       *)
(***************************************************************************)
ExpiryTime == settings.cacheExpiry * 60 * 1000

NotExpiredInclusive(entry) == now - entry.timestamp <= ExpiryTime

NotExpired(entry) == now - entry.timestamp < ExpiryTime

CacheHit(key) == settings.cacheEnabled /\ key \in DOMAIN cache /\ NotExpired(cache[key])

KnownRateLimited(repo) ==
  /\ settings.cacheEnabled
  /\ RateLimitKey(repo) \in DOMAIN cache
  /\ cache[RateLimitKey(repo)].data.tag = "true"
  /\ NotExpired(cache[RateLimitKey(repo)])

CachePutWhateverTheSetting(c, key, data) ==
  [k \in DOMAIN c \cup {key} |->
     IF k = key THEN [timestamp |-> now, data |-> data] ELSE c[k]]

CachePutKeepingTimestamp(c, key, data) ==
  IF settings.cacheEnabled
  THEN [k \in DOMAIN c \cup {key} |->
          IF k = key
          THEN [timestamp |-> IF key \in DOMAIN c THEN c[key].timestamp ELSE now,
                data |-> data]
          ELSE c[k]]
  ELSE c

CachePut(c, key, data) ==
  IF settings.cacheEnabled
  THEN [k \in DOMAIN c \cup {key} |->
          IF k = key THEN [timestamp |-> now, data |-> data] ELSE c[k]]
  ELSE c

\* an invocation has missed the cache for key and begins to acquire
NoteStart(a, key) ==
  [k \in DOMAIN a \cup {key} |->
     IF k = key
     THEN [started |-> now, succeeded |-> IF key \in DOMAIN a THEN a[key].succeeded ELSE -1,
           expiry |-> IF key \in DOMAIN a THEN a[key].expiry ELSE 0]
     ELSE a[k]]

\* an acquisition for key has returned its results, under the expiry setting of
\* this moment
NoteSuccess(a, key) ==
  [k \in DOMAIN a \cup {key} |->
     IF k = key
     THEN [started |-> IF key \in DOMAIN a THEN a[key].started ELSE now, succeeded |-> now,
           expiry |-> settings.cacheExpiry]
     ELSE a[k]]

(***************************************************************************)
(* One invocation of the code-block processor.  The fields of the second   *)
(* group record what the invocation did, for the properties.               *)
(***************************************************************************)
IdleInv ==
  [pc |-> "idle", repo |-> <<>>, keywords |-> <<>>, forceApi |-> FALSE,
   out |-> NoOut, viaRateLimit |-> FALSE, commit |-> "", hops |-> 0,
   body |-> NoBody, path |-> <<>>, stack |-> <<>>, found |-> <<>>, shown |-> "",
   \* what the invocation did
   localCalls |-> 0, remoteCalls |-> 0, netCalls |-> 0, downloads |-> 0,
   extracts |-> 0, scans |-> 0, cacheServed |-> "no",
   localFailed |-> FALSE, remoteArgs |-> <<>>, remoteOut |-> NoOut,
   \* the last response to downloadFile and how its promise ended
   status |-> 0, location |-> FALSE, dl |-> "none"]

Terminal == {"done", "failed", "norepo", "hung"}

Settle(r, pc, out) ==
  [r EXCEPT !.pc = pc, !.out = out,
            !.localFailed = @ \/ (pc = "L_settled" /\ out.tag = "error"),
            !.remoteOut = IF pc = "R_settled" THEN out ELSE @]

\* the invocation has ended: its local variables are gone
End(r, pc) ==
  [r EXCEPT !.pc = pc, !.commit = "", !.hops = 0, !.body = NoBody, !.path = <<>>,
            !.stack = <<>>, !.found = <<>>]

\* fetchIssuesLocally, from its call to its first await
LocalEntry(r0) ==
  LET r == [r0 EXCEPT !.localCalls = @ + 1]
      key == CacheKey(r.repo, r.keywords)
  IN IF ~ValidFormat(r.repo)
     THEN Settle(r, "L_settled", Error("local", "format"))
     ELSE IF CacheHit(key)
     THEN Settle([r EXCEPT !.cacheServed = "local"], "L_settled", cache[key].data)
     ELSE [r EXCEPT !.pc = "L_get", !.netCalls = @ + 1]

\* fetchIssues, from its call to its first await
RemoteEntry(r0) ==
  LET r == [r0 EXCEPT !.remoteCalls = @ + 1, !.remoteArgs = <<r0.repo, r0.keywords>>]
      key == CacheKey(r.repo, r.keywords)
  IN IF KnownRateLimited(r.repo)
     THEN LocalEntry([r EXCEPT !.viaRateLimit = TRUE])
     ELSE IF CacheHit(key)
     THEN Settle([r EXCEPT !.cacheServed = "remote"], "R_settled", cache[key].data)
     ELSE IF ~ValidFormat(r.repo)
     THEN Settle(r, "R_settled", Error("remote", "format"))
     ELSE [r EXCEPT !.pc = "R_get", !.netCalls = @ + 1]

\* the processor's choice of the acquisition path
ProcessorStartIgnoringFlag(r) == LocalEntry(r)

ProcessorStart(r) == IF ~r.forceApi THEN LocalEntry(r) ELSE RemoteEntry(r)

\* the processor's inner catch: fall back to the API
OnLocalErrorRethrow(r) == [r EXCEPT !.pc = "R_settled"]

OnLocalError(r) == RemoteEntry([r EXCEPT !.out = NoOut])

\* the processor's outer catch: which message the user sees
Classify(e) ==
  IF ErrStatus(e) = 404 /\ Falsy(settings.githubToken) THEN "notfound"
  ELSE IF ErrStatus(e) = 403 /\ ErrMentionsRateLimit(e) THEN "ratelimit"
  ELSE "generic"

\* the code after `await this.fetchIssues(...)` in the processor
AfterRemote(r) ==
  IF r.out.tag = "results"
  THEN End(r, "done")
  ELSE [End(r, "failed") EXCEPT !.shown = Classify(r.out)]

\* the code after `await this.fetchIssuesLocally(...)`, in its caller
AfterLocal(r) ==
  IF r.viaRateLimit
  THEN IF r.out.tag = "results"
       THEN Settle(r, "R_settled", r.out)
       ELSE Settle(r, "R_settled", Error("remote", "ratelimit-cached"))
  ELSE IF r.out.tag = "results"
  THEN End(r, "done")
  ELSE OnLocalError(r)

\* one promise continuation
Continue(r) == IF r.pc = "L_settled" THEN AfterLocal(r) ELSE AfterRemote(r)

\* the continuations that run, in a row, once an I/O callback has settled a promise
RECURSIVE RunMicrotasks(_)
RunMicrotasks(r) ==
  IF r.pc \in {"L_settled", "R_settled"} THEN RunMicrotasks(Continue(r)) ELSE r

(***************************************************************************)
(* The file system calls of downloadFile and extractZip.                   *)
(***************************************************************************)
\* fs.createWriteStream(path): the file is created, or truncated if it exists
CreateWriteStream(fs, path, i) ==
  [p \in DOMAIN fs \cup {path} |->
     IF p = path
     THEN [writers |-> (IF path \in DOMAIN fs THEN fs[path].writers ELSE {}) \cup {i},
           data |-> NoBody]
     ELSE fs[p]]

\* fs.unlinkSync(path), for a path that exists
Unlink(fs, path) == [p \in DOMAIN fs \ {path} |-> fs[p]]

\* what the stream of invocation i leaves in the file when it finishes: its own
\* bytes, or those of another stream that writes the same file at the same time
Written(fs, path, i, body) ==
  IF path \in DOMAIN fs /\ i \in fs[path].writers
  THEN {body} \cup (IF fs[path].writers # {i} /\ fs[path].data # NoBody
                    THEN {fs[path].data} ELSE {})
  ELSE {}

ZipSignature == <<80, 75, 3, 4>>

\* Buffer.alloc(4) filled by fs.readSync(fd, header, 0, 4, 0)
Header(bytes) == [k \in 1..4 |-> IF k <= Len(bytes) THEN bytes[k] ELSE 0]

SignatureOkFirstTwo(bytes) == Header(bytes)[1] = 80 /\ Header(bytes)[2] = 75

SignatureOk(bytes) ==
  ~(Header(bytes)[1] # 80 \/ Header(bytes)[2] # 75 \/ Header(bytes)[3] # 3 \/ Header(bytes)[4] # 4)

\* extractZip(zipPath, destPath): TRUE when it returns, FALSE when it throws
ExtractOk(fs, path) == path \in DOMAIN fs /\ fs[path].data.big /\ fs[path].data.zipOk

(***************************************************************************)
(* fetchIssuesLocally.                                                     *)
(***************************************************************************)
UpToDateAnyRecord(repo, latestCommit) == repo \in DOMAIN repoCache

\* line 721: the snapshot on disk is trusted
UpToDate(repo, latestCommit) ==
  repo \in DOMAIN repoCache /\ repoCache[repo].latestCommit = latestCommit

\* walkDir, the scan of the files and the cache write, lines 748-847
ScanAndReturn(i, r, tr) ==
  LET dir == ExtractPath(r.repo, DefaultBranch)
      res == Results("local", r.repo, r.keywords, tr[dir])
  IN IF dir \in DOMAIN tr
     THEN /\ inv' = [inv EXCEPT ![i] =
                       RunMicrotasks(Settle([r EXCEPT !.scans = @ + 1], "L_settled", res))]
          /\ cache' = CachePut(cache, CacheKey(r.repo, r.keywords), res)
          /\ acq' = NoteSuccess(acq, CacheKey(r.repo, r.keywords))
     ELSE /\ inv' = [inv EXCEPT ![i] =
                       RunMicrotasks(Settle(r, "L_settled", Error("local", "scan")))]
          /\ UNCHANGED <<cache, acq>>

\* a promise of fetchIssuesLocally rejects
LocalThrow(i, r, kind) ==
  inv' = [inv EXCEPT ![i] = RunMicrotasks(Settle(r, "L_settled", Error("local", kind)))]

\* the processor is called for a code block
Process(i) ==
  /\ i \in Scope.slots
  /\ inv[i].pc \in Terminal \cup {"idle"}
  /\ \A j \in Scope.slots : j < i => inv[j].pc # "idle"
  /\ started < Scope.starts
  /\ started' = started + 1
  /\ \E repo \in Scope.repos, keywords \in Scope.keywordLists, forceApi \in Scope.forces :
       LET r == [IdleInv EXCEPT !.repo = repo, !.keywords = keywords,
                                !.forceApi = forceApi]
           r1 == IF Falsy(repo) THEN [r EXCEPT !.pc = "norepo"] ELSE ProcessorStart(r)
       IN /\ inv' = [inv EXCEPT ![i] = r1]
          /\ acq' = IF r1.pc \in {"L_get", "R_get"}
                    THEN NoteStart(acq, CacheKey(repo, keywords)) ELSE acq
  /\ UNCHANGED <<settings, cache, repoCache, now, head, files, trees, run, scan, block>>

\* a continuation queued by the synchronous part of the processor runs
Microtask(i) ==
  /\ inv[i].pc \in {"L_settled", "R_settled"}
  /\ inv' = [inv EXCEPT ![i] = Continue(inv[i])]
  /\ UNCHANGED <<settings, cache, repoCache, now, started, head, files, trees, run, acq, scan, block>>

\* octokit.rest.repos.get answers, line 703
LocalRepoGet(i) ==
  /\ inv[i].pc = "L_get"
  /\ \E resp \in {"ok"} \cup Scope.apiErrors :
       IF resp = "ok"
       THEN inv' = [inv EXCEPT ![i].pc = "L_branch", ![i].netCalls = @ + 1]
       ELSE LocalThrow(i, inv[i], resp)
  /\ UNCHANGED <<settings, cache, repoCache, now, started, head, files, trees, run, acq, scan, block>>

\* octokit.rest.repos.getBranch answers, line 712; then up to the next await
LocalGetBranch(i) ==
  /\ inv[i].pc = "L_branch"
  /\ \E resp \in {"ok"} \cup Scope.apiErrors :
       IF resp # "ok"
       THEN LocalThrow(i, inv[i], resp) /\ UNCHANGED <<cache, files, acq>>
       ELSE IF UpToDate(inv[i].repo, head)
       THEN ScanAndReturn(i, [inv[i] EXCEPT !.commit = head], trees) /\ UNCHANGED files
       ELSE /\ inv' = [inv EXCEPT ![i].pc = "L_dl", ![i].commit = head, ![i].hops = 0,
                                  ![i].downloads = @ + 1, ![i].netCalls = @ + 1]
            /\ files' = CreateWriteStream(files, DownloadPath(inv[i].repo, DefaultBranch), i)
            /\ UNCHANGED <<cache, acq>>
  /\ UNCHANGED <<settings, repoCache, now, started, head, trees, run, scan, block>>

(***************************************************************************)
(* downloadFile, lines 541-630.                                            *)
(***************************************************************************)
FollowsRedirectOnce(status, location, hops) == status \in {301, 302} /\ location /\ hops = 0

\* lines 561-563: the response is a redirect that is followed
FollowsRedirect(status, location, hops) == status \in {301, 302} /\ location

\* the response callback of https.get, lines 559-591
DownloadResponse(i) ==
  /\ inv[i].pc = "L_dl"
  /\ \E status \in Scope.statuses, location \in Scope.locations, b \in Scope.bodies :
       LET path == DownloadPath(inv[i].repo, DefaultBranch)
           r == [inv[i] EXCEPT !.status = status, !.location = location]
       IN IF FollowsRedirect(status, location, inv[i].hops)
          THEN /\ inv[i].hops < Scope.redirects
               /\ inv' = [inv EXCEPT ![i] = [r EXCEPT !.hops = @ + 1, !.netCalls = @ + 1]]
               /\ files' = CreateWriteStream(files, path, i)
          ELSE IF status # 200
          THEN IF path \in DOMAIN files
               THEN /\ files' = Unlink(files, path)
                    /\ LocalThrow(i, [r EXCEPT !.dl = "rejected"], "download")
               ELSE \* unlinkSync throws in the callback: nothing settles the promise
                    /\ files' = files
                    /\ inv' = [inv EXCEPT ![i] = End([r EXCEPT !.dl = "pending"], "hung")]
          ELSE /\ inv' = [inv EXCEPT ![i] = [r EXCEPT !.pc = "L_pipe",
                                                      !.body = [b EXCEPT !.commit = head]]]
               /\ files' = files
  /\ UNCHANGED <<settings, cache, repoCache, now, started, head, trees, run, acq, scan, block>>

\* the 'error' event of the request, lines 619-628
DownloadError(i) ==
  /\ inv[i].pc = "L_dl"
  /\ LET path == DownloadPath(inv[i].repo, DefaultBranch)
     IN files' = IF path \in DOMAIN files THEN Unlink(files, path) ELSE files
  /\ LocalThrow(i, [inv[i] EXCEPT !.dl = "error"], "network")
  /\ UNCHANGED <<settings, cache, repoCache, now, started, head, trees, run, acq, scan, block>>

\* the snapshot record written before the extraction is known to have succeeded
ExtractAndScanRecordingFirst(i, r, fs) ==
  LET path == DownloadPath(r.repo, DefaultBranch)
      dir == ExtractPath(r.repo, DefaultBranch)
      tr == [d \in DOMAIN trees \cup {dir} |->
               IF d = dir THEN fs[path].data.commit ELSE trees[d]]
  IN /\ repoCache' = [k \in DOMAIN repoCache \cup {r.repo} |->
                        IF k = r.repo
                        THEN [latestCommit |-> r.commit, downloadPath |-> path,
                              extractPath |-> dir, timestamp |-> now]
                        ELSE repoCache[k]]
     /\ IF ExtractOk(fs, path)
        THEN trees' = tr /\ ScanAndReturn(i, [r EXCEPT !.extracts = @ + 1], tr)
        ELSE LocalThrow(i, r, "extract") /\ UNCHANGED <<trees, cache, acq>>

\* lines 736-745, after the download: extract and record the snapshot
ExtractAndScan(i, r, fs) ==
  LET path == DownloadPath(r.repo, DefaultBranch)
      dir == ExtractPath(r.repo, DefaultBranch)
      tr == [d \in DOMAIN trees \cup {dir} |->
               IF d = dir THEN fs[path].data.commit ELSE trees[d]]
  IN IF ExtractOk(fs, path)
     THEN /\ trees' = tr
          /\ repoCache' = [k \in DOMAIN repoCache \cup {r.repo} |->
                             IF k = r.repo
                             THEN [latestCommit |-> r.commit, downloadPath |-> path,
                                   extractPath |-> dir, timestamp |-> now]
                             ELSE repoCache[k]]
          /\ ScanAndReturn(i, [r EXCEPT !.extracts = @ + 1], tr)
     ELSE /\ LocalThrow(i, r, "extract")
          /\ UNCHANGED <<trees, repoCache, cache, acq>>

\* the 'finish' event of the write stream, lines 592-618, and what follows the
\* settled promise
DownloadFinish(i) ==
  /\ inv[i].pc = "L_pipe"
  /\ LET path == DownloadPath(inv[i].repo, DefaultBranch)
         r == [inv[i] EXCEPT !.body = NoBody]
     IN IF path \notin DOMAIN files
        THEN \* fs.openSync throws: the download is rejected
             /\ LocalThrow(i, [r EXCEPT !.dl = "invalid"], "badzip")
             /\ UNCHANGED <<files, trees, repoCache, cache, acq>>
        ELSE \E data \in (IF i \in files[path].writers
                          THEN Written(files, path, i, inv[i].body)
                          ELSE {files[path].data}) :
               LET fs == [files EXCEPT ![path] = [writers |-> @.writers \ {i}, data |-> data]]
               IN IF SignatureOk(data.bytes)
                  THEN files' = fs /\ ExtractAndScan(i, [r EXCEPT !.dl = "resolved"], fs)
                  ELSE /\ files' = Unlink(fs, path)
                       /\ LocalThrow(i, [r EXCEPT !.dl = "invalid"], "badzip")
                       /\ UNCHANGED <<trees, repoCache, cache, acq>>
  /\ UNCHANGED <<settings, now, started, head, run, scan, block>>

(***************************************************************************)
(* fetchIssues, lines 215-318.                                             *)
(***************************************************************************)
MaxFileSize == 500000

Uppers == <<"A", "B", "C", "D", "E", "F", "G", "H", "I", "J", "K", "L", "M",
            "N", "O", "P", "Q", "R", "S", "T", "U", "V", "W", "X", "Y", "Z">>

Lowers == <<"a", "b", "c", "d", "e", "f", "g", "h", "i", "j", "k", "l", "m",
            "n", "o", "p", "q", "r", "s", "t", "u", "v", "w", "x", "y", "z">>

LowerChar(c) ==
  IF \E k \in 1..26 : Uppers[k] = c THEN Lowers[CHOOSE k \in 1..26 : Uppers[k] = c] ELSE c

ToLowerCase(s) == [k \in 1..Len(s) |-> LowerChar(s[k])]

Extensions ==
  { <<"j", "s">>, <<"j", "s", "x">>, <<"t", "s">>, <<"t", "s", "x">>, <<"p", "y">>,
    <<"j", "a", "v", "a">>, <<"r", "b">>, <<"p", "h", "p">>, <<"c">>, <<"c", "p", "p">>,
    <<"h">>, <<"h", "p", "p">>, <<"c", "s">>, <<"g", "o">>, <<"r", "s">>,
    <<"s", "w", "i", "f", "t">>, <<"k", "t">>, <<"s", "h">>, <<"m", "d">>,
    <<"t", "x", "t">>, <<"m", "l">>, <<"m", "l", "i">> }

EndsWith(s, t) == Len(s) >= Len(t) /\ SubSeq(s, Len(s) - Len(t) + 1, Len(s)) = t

\* file.name.match(/\.(js|...|mli)$/i)
HasAllowedExtension(name) ==
  \E e \in Extensions : EndsWith(ToLowerCase(name), <<".">> \o e)

CandidateBelowCeiling(file) == ~(file.size >= MaxFileSize \/ ~HasAllowedExtension(file.name))

\* line 269, negated: the file's content is fetched
Candidate(file) == ~(file.size > MaxFileSize \/ ~HasAllowedExtension(file.name))

Item(type, name, path, size) == [type |-> type, name |-> name, path |-> path, size |-> size]

\* GitHub: the listing of a directory of the repository
RemoteTree(path) ==
  IF path = <<>>
  THEN << Item("file", <<"x", ".", "t", "s">>, <<"x", ".", "t", "s">>, 10),
          Item("dir", <<"d">>, <<"d">>, 0) >>
  ELSE << Item("file", <<"y", ".", "T", "S">>, <<"d", "/", "y", ".", "T", "S">>, 500001),
          Item("file", <<"z", ".", "p", "n", "g">>, <<"d", "/", "z", ".", "p", "n", "g">>, 10) >>

\* getFilesRecursively, between two awaits: the loops over the listings received so
\* far, up to the next directory to list or to the end of the outermost call
RECURSIVE Walk(_, _)
Walk(stack, found) ==
  IF stack = <<>> THEN [next |-> "files", path |-> <<>>, stack |-> stack, found |-> found]
  ELSE LET n == Len(stack)
           top == stack[n]
       IN IF top = <<>> THEN Walk(SubSeq(stack, 1, n - 1), found)
          ELSE LET st == [stack EXCEPT ![n] = Tail(top)]
                   item == Head(top)
               IN IF item.type = "dir"
                  THEN [next |-> "list", path |-> item.path, stack |-> st, found |-> found]
                  ELSE IF item.type = "file" THEN Walk(st, Append(found, item))
                  ELSE Walk(st, found)

\* a promise of fetchIssues rejects
RemoteThrow(i, r, kind) ==
  inv' = [inv EXCEPT ![i] = RunMicrotasks(Settle(r, "R_settled", Error("remote", kind)))]

\* the loop over the files, lines 267-307, up to the next await or to the return
RemoteFiles(i, r) ==
  LET todo == SelectSeq(r.found, Candidate)
      res == Results("remote", r.repo, r.keywords, r.commit)
  IN IF todo # <<>>
     THEN /\ inv' = [inv EXCEPT ![i] = [r EXCEPT !.pc = "R_file", !.found = todo,
                                                 !.netCalls = @ + 1]]
          /\ UNCHANGED <<cache, acq>>
     ELSE /\ inv' = [inv EXCEPT ![i] =
                       RunMicrotasks(Settle([r EXCEPT !.found = <<>>], "R_settled", res))]
          /\ cache' = CachePut(cache, CacheKey(r.repo, r.keywords), res)
          /\ acq' = NoteSuccess(acq, CacheKey(r.repo, r.keywords))

\* octokit.rest.repos.get answers, line 227
RemoteRepoGet(i) ==
  /\ inv[i].pc = "R_get"
  /\ \E resp \in {"ok"} \cup Scope.apiErrors :
       IF resp = "ok"
       THEN inv' = [inv EXCEPT ![i].pc = "R_list", ![i].path = <<>>, ![i].netCalls = @ + 1]
       ELSE RemoteThrow(i, inv[i], resp)
  /\ UNCHANGED <<settings, cache, repoCache, now, started, head, files, trees, run, acq, scan, block>>

\* octokit.rest.repos.getContent answers for a directory, line 240
RemoteListing(i) ==
  /\ inv[i].pc = "R_list"
  /\ \E resp \in {"ok"} \cup Scope.apiErrors :
       IF resp # "ok"
       THEN RemoteThrow(i, [inv[i] EXCEPT !.stack = <<>>, !.found = <<>>, !.path = <<>>],
                        resp) /\ UNCHANGED <<cache, acq>>
       ELSE LET w == Walk(Append(inv[i].stack, RemoteTree(inv[i].path)), inv[i].found)
                r == [inv[i] EXCEPT !.stack = w.stack, !.found = w.found, !.path = w.path]
            IN IF w.next = "list"
               THEN /\ inv' = [inv EXCEPT ![i] = [r EXCEPT !.netCalls = @ + 1]]
                    /\ UNCHANGED <<cache, acq>>
               ELSE RemoteFiles(i, r)
  /\ UNCHANGED <<settings, repoCache, now, started, head, files, trees, run, scan, block>>

\* octokit.rest.repos.getContent answers for a file, line 273
RemoteFile(i) ==
  /\ inv[i].pc = "R_file"
  /\ \E resp \in {"ok"} \cup Scope.apiErrors :
       IF resp # "ok"
       THEN RemoteThrow(i, [inv[i] EXCEPT !.found = <<>>], resp) /\ UNCHANGED <<cache, acq>>
       ELSE RemoteFiles(i, [inv[i] EXCEPT !.found = Tail(@), !.commit = head])
  /\ UNCHANGED <<settings, repoCache, now, started, head, files, trees, run, scan, block>>

(***************************************************************************)
(* The settings tab and the world.                                         *)
(***************************************************************************)
\* the GitHub Token field, lines 873-876
SetGithubToken(v) ==
  /\ v \in Scope.tokens
  /\ v # settings.githubToken
  /\ settings' = [settings EXCEPT !.githubToken = v]
  /\ UNCHANGED <<cache, repoCache, now, inv, started, head, files, trees, run, acq, scan, block>>

\* the Enable Caching toggle, lines 920-923
SetCacheEnabled(v) ==
  /\ v \in Scope.enabledValues
  /\ v # settings.cacheEnabled
  /\ settings' = [settings EXCEPT !.cacheEnabled = v]
  /\ UNCHANGED <<cache, repoCache, now, inv, started, head, files, trees, run, acq, scan, block>>

\* the Cache Expiry slider, lines 932-935
SetCacheExpiry(v) ==
  /\ v \in Scope.expiries
  /\ v # settings.cacheExpiry
  /\ settings' = [settings EXCEPT !.cacheExpiry = v]
  /\ UNCHANGED <<cache, repoCache, now, inv, started, head, files, trees, run, acq, scan, block>>

TempDirs == {<<"t">>, <<"u">>}

\* no invocation is between its start and its end
Quiescent == \A i \in Slots : inv[i].pc \in Terminal \cup {"idle"}

\* the Repository Cache Directory field, lines 946-952; the paths an invocation
\* has computed are those of its start, so the change comes between invocations
SetTempDir(v) ==
  /\ Quiescent
  /\ v # settings.tempDir
  /\ settings' = [settings EXCEPT !.tempDir = v]
  /\ UNCHANGED <<cache, repoCache, now, inv, started, head, files, trees, run, acq, scan, block>>

\* path is inside the repository cache directory; the entry of that directory
\* it is or lies in
InTempDir(path) ==
  /\ Len(path) > Len(settings.tempDir)
  /\ SubSeq(path, 1, Len(settings.tempDir) + 1) = settings.tempDir \o <<"/">>

TempDirEntry(path) ==
  PathJoin(settings.tempDir,
           Split(SubSeq(path, Len(settings.tempDir) + 2, Len(path)), "/")[1])

\* the Clear Cache button, lines 958-985: the entries of the directory are
\* removed one after the other and then the records are dropped; when a removal
\* throws, some entries are gone and the records stay
ClearRepositoryCache ==
  /\ Quiescent
  /\ LET paths == {q \in DOMAIN files \cup DOMAIN trees : InTempDir(q)}
         entries == {TempDirEntry(q) : q \in paths}
     IN \E gone \in SUBSET entries :
          /\ files' = [q \in {x \in DOMAIN files :
                                ~(InTempDir(x) /\ TempDirEntry(x) \in gone)} |-> files[q]]
          /\ trees' = [q \in {x \in DOMAIN trees :
                                ~(InTempDir(x) /\ TempDirEntry(x) \in gone)} |-> trees[q]]
          /\ \/ gone = entries /\ repoCache' = [k \in {} |-> NoOut]
             \/ repoCache' = repoCache
  /\ UNCHANGED <<settings, cache, now, inv, started, head, run, acq, scan, block>>

\* time passes
Tick ==
  /\ \E d \in Scope.steps : now + d <= Scope.clockEnd /\ now' = now + d
  /\ UNCHANGED <<settings, cache, repoCache, inv, started, head, files, trees, run, acq, scan, block>>

\* a commit is pushed to the default branch on GitHub
Push ==
  /\ head = "c1"
  /\ head' = "c2"
  /\ UNCHANGED <<settings, cache, repoCache, now, inv, started, files, trees, run, acq, scan, block>>

(***************************************************************************)
(* The plugin after onload.                                                *)
(***************************************************************************)
EmptyMap == [k \in {} |-> NoOut]

\* loadSettings: the persisted settings over DEFAULT_SETTINGS
LoadedSettings(sc) ==
  [githubToken : sc.tokens, cacheEnabled : sc.enabledValues, cacheExpiry : sc.expiries,
   tempDir : {<<"t">>}]

InitWith(name, sc) ==
  /\ run = name
  /\ settings \in LoadedSettings(sc)
  /\ cache = EmptyMap
  /\ repoCache = EmptyMap
  /\ now = 0
  /\ inv = [i \in Slots |-> IdleInv]
  /\ started = 0
  /\ head = "c1"
  /\ files = EmptyMap
  /\ trees = EmptyMap
  /\ acq = EmptyMap
  /\ scan = NoScan
  /\ block = NoBlock

Init == InitWith("full", FullScope)

\* the steps of one processor invocation
Invocation(i) ==
  \/ Process(i)
  \/ Microtask(i)
  \/ LocalRepoGet(i)
  \/ LocalGetBranch(i)
  \/ DownloadResponse(i)
  \/ DownloadError(i)
  \/ DownloadFinish(i)
  \/ RemoteRepoGet(i)
  \/ RemoteListing(i)
  \/ RemoteFile(i)

Next ==
  \/ \E i \in Slots : Invocation(i)
  \/ \E v \in Tokens : SetGithubToken(v)
  \/ \E v \in BOOLEAN : SetCacheEnabled(v)
  \/ \E v \in CacheExpiryValues : SetCacheExpiry(v)
  \/ Tick
  \/ Push

Spec == Init /\ [][Next]_vars

NextFlow == \E i \in Slots : Invocation(i)

SpecFlow == InitWith("flow", FlowScope) /\ [][NextFlow]_vars

SpecKeys == InitWith("keys", KeysScope) /\ [][NextFlow]_vars

SpecCollide == InitWith("collide", CollideScope) /\ [][NextFlow]_vars

NextRelocate ==
  \/ \E i \in Slots : Invocation(i)
  \/ \E v \in TempDirs : SetTempDir(v)
  \/ ClearRepositoryCache

SpecRelocate == InitWith("relocate", RelocateScope) /\ [][NextRelocate]_vars

NextExpiry ==
  \/ \E i \in Slots : Invocation(i)
  \/ \E v \in CacheExpiryValues : SetCacheExpiry(v)
  \/ Tick

SpecExpiry == InitWith("expiry", ExpiryScope) /\ [][NextExpiry]_vars

NextCache ==
  \/ \E i \in Slots : Invocation(i)
  \/ \E v \in BOOLEAN : SetCacheEnabled(v)
  \/ Tick

SpecCache == InitWith("cache", CacheScope) /\ [][NextCache]_vars

NextWindow ==
  \/ \E i \in Slots : Invocation(i)
  \/ Tick

SpecWindow == InitWith("window", WindowScope) /\ [][NextWindow]_vars

NextFormat == \E i \in Slots : Invocation(i)

SpecFormat == InitWith("format", FormatScope) /\ [][NextFormat]_vars

NextSignature == \E i \in Slots : Invocation(i)

SpecSignature == InitWith("signature", SignatureScope) /\ [][NextSignature]_vars

NextDownload == \E i \in Slots : Invocation(i)

SpecDownload == InitWith("download", DownloadScope) /\ [][NextDownload]_vars

NextSnapshot ==
  \/ \E i \in Slots : Invocation(i)
  \/ Tick
  \/ Push

SpecSnapshot == InitWith("snapshot", SnapshotScope) /\ [][NextSnapshot]_vars

(***************************************************************************)
(* Properties of the processor's choice of path, under SpecFlow.           *)
(***************************************************************************)
\* the processor's own call of fetchIssuesLocally has failed in invocation i
LocalSearchFailed(i) == inv[i].localFailed /\ ~inv[i].forceApi

\* C1: when force-api is not set and fetchIssuesLocally fails, fetchIssues is the
\* next thing called, with the same repository and keywords; the invocation ends
\* done with what fetchIssues returned when it succeeds, and an error shown is
\* the error of fetchIssues, never the local one.
C1_FallbackToRemote ==
  \A i \in Slots :
    LocalSearchFailed(i) =>
      \/ inv[i].pc = "L_settled" /\ inv[i].remoteCalls = 0
      \/ /\ inv[i].remoteCalls = 1
         /\ inv[i].localCalls = 1
         /\ inv[i].remoteArgs = <<inv[i].repo, inv[i].keywords>>
         /\ inv[i].pc \in Terminal => inv[i].out = inv[i].remoteOut
         /\ inv[i].remoteOut.tag = "results" => inv[i].pc = "done"
         /\ inv[i].pc = "done" => inv[i].remoteOut.tag = "results"
         /\ inv[i].pc = "failed" => inv[i].out.origin = "remote"

C1_Witness ==
  \E i \in Slots :
    /\ LocalSearchFailed(i)
    /\ inv[i].pc = "done"
    /\ inv[i].out.by = "remote"
    /\ inv[i].cacheServed = "no"

\* C2: an invocation with force-api set never calls fetchIssuesLocally,
\* downloadFile or extractZip and never scans local files; it calls fetchIssues,
\* once.
C2_ForceApiRemoteOnly ==
  \A i \in Slots :
    inv[i].forceApi /\ inv[i].pc \notin {"idle", "norepo"} =>
      /\ inv[i].localCalls = 0
      /\ inv[i].downloads = 0
      /\ inv[i].extracts = 0
      /\ inv[i].scans = 0
      /\ inv[i].remoteCalls = 1
      /\ inv[i].pc \notin {"L_settled", "L_get", "L_branch", "L_dl", "L_pipe"}

C2_Witness ==
  \E i \in Slots :
    /\ inv[i].forceApi
    /\ inv[i].pc = "failed"
    /\ inv[i].out.kind = "ratelimit"
    /\ \E j \in Slots : j # i /\ ~inv[j].forceApi /\ inv[j].scans = 1

\* C3: when fetchIssues has failed with the rate-limit status and no token is
\* configured, no error is shown before fetchIssuesLocally has been tried,
\* whatever force-api says.
C3_LocalTriedBeforeRateLimitShown ==
  \A i \in Slots :
    /\ inv[i].pc = "failed"
    /\ inv[i].remoteOut.tag = "error"
    /\ inv[i].remoteOut.kind = "ratelimit"
    /\ Falsy(settings.githubToken)
    => inv[i].localCalls >= 1

\* C4: once fetchIssues has failed for a repository with the rate-limit error
\* while caching is enabled, the cache holds the entry 'ratelimit-<repo>' with
\* the payload true.
C4_RateLimitSentinelStored ==
  \A i \in Slots :
    /\ inv[i].remoteOut.tag = "error"
    /\ inv[i].remoteOut.kind = "ratelimit"
    /\ settings.cacheEnabled
    => /\ RateLimitKey(inv[i].repo) \in DOMAIN cache
       /\ cache[RateLimitKey(inv[i].repo)].data.tag = "true"

(***************************************************************************)
(* Properties of the result cache, under SpecCache and SpecWindow.         *)
(***************************************************************************)
\* this step runs the processor for a code block in slot i
Processes(i) == started' # started /\ inv'[i] # inv[i] /\ inv'[i].pc # "norepo"

\* this step calls fetchIssuesLocally or fetchIssues in invocation i, which
\* reads the cache first
ReadsCache(i) ==
  \/ Processes(i)
  \/ /\ started' = started
     /\ inv'[i].localCalls + inv'[i].remoteCalls > inv[i].localCalls + inv[i].remoteCalls

\* this step begins the acquisition of invocation i
AcquisitionBegins(i) == Processes(i) /\ inv'[i].pc \in {"L_get", "R_get"}

\* C5: fetchIssuesLocally and fetchIssues return the cached entry of their key
\* exactly when caching is enabled and now - timestamp < cacheExpiry * 60000;
\* otherwise, equality included, the entry is not returned and the acquisition
\* runs.
C5_CachedEntryReturnedIffFresh ==
  [][\A i \in Slots :
       ReadsCache(i) =>
         LET key == CacheKey(inv'[i].repo, inv'[i].keywords)
             fresh == /\ settings.cacheEnabled
                      /\ key \in DOMAIN cache
                      /\ now - cache[key].timestamp < settings.cacheExpiry * 60000
         IN /\ inv'[i].cacheServed # "no" <=> fresh
            /\ fresh => /\ inv'[i].out = cache[key].data
                        /\ inv'[i].pc \in {"L_settled", "R_settled", "done"}
            /\ ~fresh /\ key \in DOMAIN cache => inv'[i].pc \in {"L_get", "R_get"}]_vars

C5_Witness ==
  \E i \in Slots :
    LET key == CacheKey(inv[i].repo, inv[i].keywords)
    IN /\ inv[i].pc \in {"L_get", "R_get"}
       /\ inv[i].netCalls = 1
       /\ settings.cacheEnabled
       /\ key \in DOMAIN cache
       /\ key \in DOMAIN acq
       /\ acq[key].started = now
       /\ now - cache[key].timestamp = settings.cacheExpiry * 60000

\* C6: once the entry of a key has expired, a read returns absent and exactly
\* one acquisition runs for the key: no invocation begins an acquisition when
\* another one has begun since the entry expired.
C6_ExactlyOneFetchPerWindow ==
  [][\A i \in Slots :
       AcquisitionBegins(i) =>
         LET key == CacheKey(inv'[i].repo, inv'[i].keywords)
         IN key \in DOMAIN cache /\ key \in DOMAIN acq =>
              acq[key].started < cache[key].timestamp + settings.cacheExpiry * 60000]_vars

\* C6, amended: once the entry of a key has expired, an invocation for the key
\* reads absent and begins an acquisition; and once an acquisition of the key
\* has succeeded, no invocation begins another before the expiry has elapsed
\* since that success.
C6_NoFetchWhileRefreshedEntryFresh ==
  [][\A i \in Slots :
       Processes(i) =>
         LET key == CacheKey(inv'[i].repo, inv'[i].keywords)
         IN /\ key \in DOMAIN cache
               /\ now - cache[key].timestamp >= settings.cacheExpiry * 60000
               => AcquisitionBegins(i)
            /\ AcquisitionBegins(i) /\ key \in DOMAIN acq /\ acq[key].succeeded >= 0
               => now >= acq[key].succeeded + settings.cacheExpiry * 60000]_vars

C6_Witness ==
  \E i \in Slots :
    LET key == CacheKey(inv[i].repo, inv[i].keywords)
    IN /\ inv[i].cacheServed # "no"
       /\ key \in DOMAIN cache
       /\ key \in DOMAIN acq
       /\ cache[key].timestamp >= settings.cacheExpiry * 60000
       /\ acq[key].succeeded = cache[key].timestamp
       /\ acq[key].started = cache[key].timestamp

(***************************************************************************)
(* Properties of the snapshot records, under SpecSnapshot.                 *)
(***************************************************************************)
\* this step is getBranch answering invocation i with the head of the branch
GotBranchHead(i) ==
  inv[i].pc = "L_branch" /\ inv'[i] # inv[i] /\ ~inv'[i].localFailed

\* this step scans the extracted files for invocation i
Scans(i) == started' = started /\ inv'[i].scans > inv[i].scans

\* C7: when getBranch has answered, the download is skipped exactly when
\* repoCache holds a record of the repository whose latestCommit is the SHA just
\* retrieved, and then the files are scanned with no download; otherwise the
\* download begins, and a scan follows only a download and an extraction.
C7_DownloadSkippedIffSameCommit ==
  [][\A i \in Slots :
       LET repo == inv[i].repo
           trusted == repo \in DOMAIN repoCache /\ repoCache[repo].latestCommit = head
       IN /\ GotBranchHead(i) =>
               IF trusted
               THEN /\ inv'[i].downloads = inv[i].downloads
                    /\ inv'[i].scans = inv[i].scans + 1
                    /\ files' = files
               ELSE /\ inv'[i].pc = "L_dl"
                    /\ inv'[i].downloads = inv[i].downloads + 1
                    /\ inv'[i].scans = inv[i].scans
          /\ Scans(i) =>
               \/ inv[i].pc = "L_branch" /\ trusted /\ inv[i].downloads = 0
               \/ /\ inv[i].pc = "L_pipe"
                  /\ inv[i].downloads = 1
                  /\ inv'[i].extracts = inv[i].extracts + 1]_vars

C7_Witness ==
  \E i \in Slots :
    /\ inv[i].pc = "done"
    /\ inv[i].scans = 1
    /\ inv[i].downloads = 0
    /\ inv[i].cacheServed = "no"
    /\ started = 2
    /\ head = "c2"
    /\ inv[i].repo \in DOMAIN repoCache
    /\ repoCache[inv[i].repo].latestCommit = "c2"

(***************************************************************************)
(* Properties of the repository identifier, under SpecFormat.              *)
(***************************************************************************)
\* exactly one '/' with a non-empty segment on either side
OwnerSlashName(repo) ==
  /\ Cardinality({k \in 1..Len(repo) : repo[k] = "/"}) = 1
  /\ repo[1] # "/"
  /\ repo[Len(repo)] # "/"

\* C8: for a repository identifier that is not one '/' between two non-empty
\* segments, fetchIssuesLocally and fetchIssues make no network call, and each
\* call fails with the invalid-format error.
C8_MalformedRepoRejectedBeforeNetwork ==
  \A i \in Slots :
    inv[i].pc \notin {"idle", "norepo"} /\ ~OwnerSlashName(inv[i].repo) =>
      /\ inv[i].netCalls = 0
      /\ inv[i].pc \notin {"L_get", "R_get", "done"}
      /\ inv[i].out.tag = "error" => inv[i].out.kind = "format"

(***************************************************************************)
(* Properties of downloadFile, under SpecSignature and SpecDownload.       *)
(***************************************************************************)
\* this step is the 'finish' event of the stream of invocation i
Finishes(i) == inv[i].pc = "L_pipe" /\ inv'[i].pc # "L_pipe"

\* C9: when the stream has finished, a file whose first four bytes are not
\* 50 4B 03 04 is deleted and the download rejected; a file that begins with
\* these four bytes is kept and the download resolves, whatever follows them.
C9_SignatureDecides ==
  [][\A i \in Slots :
       Finishes(i) =>
         LET path == DownloadPath(inv[i].repo, DefaultBranch)
             bytes == inv[i].body.bytes
             signed == /\ Len(bytes) >= 4
                       /\ bytes[1] = 80 /\ bytes[2] = 75 /\ bytes[3] = 3 /\ bytes[4] = 4
         IN IF signed
            THEN /\ inv'[i].dl = "resolved"
                 /\ path \in DOMAIN files'
                 /\ files'[path].data.bytes = bytes
            ELSE /\ inv'[i].dl = "invalid"
                 /\ path \notin DOMAIN files'
                 /\ inv'[i].extracts = inv[i].extracts]_vars

C9_Witness ==
  \E i \in Slots :
    LET path == DownloadPath(inv[i].repo, DefaultBranch)
    IN /\ inv[i].dl = "resolved"
       /\ inv[i].localFailed
       /\ path \in DOMAIN files
       /\ files[path].data.bytes = <<80, 75, 3, 4, 0>>
       /\ ~files[path].data.zipOk

\* this step is a response arriving for the download of invocation i
Responds(i) == inv[i].pc = "L_dl" /\ inv'[i] # inv[i] /\ inv'[i].dl # "error"

Awaiting(i) ==
  inv[i].pc \in {"L_settled", "R_settled", "L_get", "L_branch", "L_dl", "L_pipe",
                 "R_get", "R_list", "R_file"}

\* invocation i has a network request outstanding
RequestOutstanding(i) ==
  inv[i].pc \in {"L_get", "L_branch", "L_dl", "L_pipe", "R_get", "R_list", "R_file"}

\* C11: an invocation that has been started and waits for nothing has rendered
\* its results or shown an error element: no error escapes the processor.
C11_EndsWithResultsOrError ==
  \A i \in Slots :
    inv[i].pc # "idle" /\ ~Awaiting(i) =>
      \/ inv[i].pc = "done" /\ inv[i].out.tag = "results"
      \/ inv[i].pc = "failed" /\ inv[i].shown \in {"notfound", "ratelimit", "generic"}
      \/ inv[i].pc = "norepo"

\* C12: no two network requests are outstanding at the same time, also when
\* several code blocks are processed.
C12_OneRequestAtATime ==
  Cardinality({i \in Slots : RequestOutstanding(i)}) <= 1

\* C13: every downloadFile promise resolves or rejects: none is left pending
\* once its last response has been handled.
C13_DownloadSettles == \A i \in Slots : inv[i].dl # "pending"

(***************************************************************************)
(* The scan for keywords: walkDir and the loops over files and lines of    *)
(* fetchIssuesLocally, and the loop over files and lines of fetchIssues.   *)
(***************************************************************************)
MaxContentLen == 3

\* the character U+0000
Nul == "NUL"

\* String.prototype.startsWith
StartsWith(s, t) == Len(s) >= Len(t) /\ SubSeq(s, 1, Len(t)) = t

\* String.prototype.includes: the search from each position of s in turn
RECURSIVE Includes(_, _)
Includes(s, t) ==
  IF StartsWith(s, t) THEN TRUE
  ELSE IF s = <<>> THEN FALSE
  ELSE Includes(Tail(s), t)

WhiteSpace == {" ", "\t", "\n", "\r", "\f"}

RECURSIVE TrimStart(_)
TrimStart(s) == IF s # <<>> /\ Head(s) \in WhiteSpace THEN TrimStart(Tail(s)) ELSE s

RECURSIVE TrimEnd(_)
TrimEnd(s) ==
  IF s # <<>> /\ s[Len(s)] \in WhiteSpace THEN TrimEnd(SubSeq(s, 1, Len(s) - 1)) ELSE s

\* String.prototype.trim
Trim(s) == TrimEnd(TrimStart(s))

Digits == <<"0", "1", "2", "3", "4", "5", "6", "7", "8", "9">>

\* a number in a template literal: its decimal digits
RECURSIVE NumberToString(_)
NumberToString(n) ==
  IF n < 10 THEN <<Digits[n + 1]>> ELSE NumberToString(n \div 10) \o <<Digits[(n % 10) + 1]>>

RECURSIVE Flatten(_)
Flatten(lists) == IF lists = <<>> THEN <<>> ELSE Head(lists) \o Flatten(Tail(lists))

GithubUrl == <<"h", "t", "t", "p", "s", ":", "/", "/", "g", "i", "t", "h", "u", "b", ".",
             "c", "o", "m", "/">>

Blob == <<"/", "b", "l", "o", "b", "/">>

\* lines 302 and 824
MatchUrl(repo, branch, path, i) ==
  GithubUrl \o Owner(repo) \o <<"/">> \o RepoName(repo) \o Blob \o branch \o <<"/">>
    \o path \o <<"#", "L">> \o NumberToString(i + 1)

\* the Match pushed for the line of index i (from 0) of the file at path
MatchWithIndexAsLine(repo, path, lines, i) ==
  [file |-> path, line |-> i,
   content |-> Trim(lines[i + 1])
                 \o (IF i + 1 < Len(lines) THEN <<"\n">> \o Trim(lines[i + 2]) ELSE <<>>),
   url |-> MatchUrl(repo, DefaultBranch, path, i)]

Match(repo, path, lines, i) ==
  [file |-> path, line |-> i + 1,
   content |-> Trim(lines[i + 1])
                 \o (IF i + 1 < Len(lines) THEN <<"\n">> \o Trim(lines[i + 2]) ELSE <<>>),
   url |-> MatchUrl(repo, DefaultBranch, path, i)]

\* line 816
LocalMatchesCaseSensitive(line, keyword) == Includes(line, keyword)

LocalMatches(line, keyword) == Includes(ToLowerCase(line), ToLowerCase(keyword))

\* line 295
RemoteMatchesWithoutColon(line, keyword) == Includes(line, keyword)

RemoteMatches(line, keyword) == Includes(line, keyword \o <<":">>)

\* an entry of a directory of the snapshot
File(name, content, size) ==
  [type |-> "file", name |-> name, content |-> content, size |-> size, items |-> <<>>]

Dir(name, items) ==
  [type |-> "dir", name |-> name, content |-> <<>>, size |-> 0, items |-> items]

NodeModules == <<"n", "o", "d", "e", "_", "m", "o", "d", "u", "l", "e", "s">>

SkippedDirs == {NodeModules, <<".", "g", "i", "t">>, <<"b", "u", "i", "l", "d">>,
                <<"d", "i", "s", "t">>, <<"t", "a", "r", "g", "e", "t">>}

\* walkDir without the list of names at line 765
RECURSIVE walkDirHiddenOnly(_, _)
walkDirHiddenOnly(dir, items) ==
  IF items = <<>> THEN <<>>
  ELSE LET item == Head(items)
           itemPath == PathJoin(dir, item.name)
           here == IF item.type = "dir" /\ ~StartsWith(item.name, <<".">>)
                      /\ item.name # NodeModules
                   THEN walkDirHiddenOnly(itemPath, item.items)
                   ELSE IF item.type = "file"
                        THEN <<[path |-> itemPath, content |-> item.content,
                                size |-> item.size]>>
                        ELSE <<>>
       IN here \o walkDirHiddenOnly(dir, Tail(items))

\* walkDir(dir), items being what readdirSync(dir) and statSync give
RECURSIVE walkDir(_, _)
walkDir(dir, items) ==
  IF items = <<>> THEN <<>>
  ELSE LET item == Head(items)
           itemPath == PathJoin(dir, item.name)
           here == IF item.type = "dir" /\ ~StartsWith(item.name, <<".">>)
                      /\ item.name # NodeModules
                   THEN IF item.name \in SkippedDirs THEN <<>>
                        ELSE walkDir(itemPath, item.items)
                   ELSE IF item.type = "file"
                        THEN <<[path |-> itemPath, content |-> item.content,
                                size |-> item.size]>>
                        ELSE <<>>
       IN here \o walkDir(dir, Tail(items))

BinaryRun == 50

\* those of the characters x00-x08, x0B, x0C, x0E-x1F and x7F that the texts contain
ControlChars == {Nul, "\f"}

\* line 796
SeemsBinaryRunOnly(content) ==
  \E k \in 1..(Len(content) - BinaryRun + 1) :
    \A j \in 0..(BinaryRun - 1) : content[k + j] \in ControlChars

SeemsBinary(content) ==
  \/ Includes(content, <<Nul>>)
  \/ \E k \in 1..(Len(content) - BinaryRun + 1) :
       \A j \in 0..(BinaryRun - 1) : content[k + j] \in ControlChars

\* path.relative(searchDir, file).replace(/\\/g, '/')
RelativePath(searchDir, file) ==
  LET rel == SubSeq(file, Len(searchDir) + 2, Len(file))
  IN [k \in 1..Len(rel) |-> IF rel[k] = "\\" THEN "/" ELSE rel[k]]

\* the loop over the keywords without the break at line 828
LocalFileMatchesEveryKeyword(repo, path, content, keywords) ==
  LET lines == Split(content, "\n")
      hits(i) == SelectSeq(keywords, LAMBDA kw : LocalMatches(lines[i + 1], kw))
  IN Flatten([n \in 1..Len(lines) |->
                [k \in 1..Len(hits(n - 1)) |-> Match(repo, path, lines, n - 1)]])

\* lines 805-831: the lines of one file, one Match at most for a line
LocalFileMatches(repo, path, content, keywords) ==
  LET lines == Split(content, "\n")
      hit(i) == \E k \in 1..Len(keywords) : LocalMatches(lines[i + 1], keywords[k])
  IN Flatten([n \in 1..Len(lines) |->
                IF hit(n - 1) THEN <<Match(repo, path, lines, n - 1)>> ELSE <<>>])

\* lines 779-835: the files walkDir returns, in order
LocalScan(repo, items, keywords) ==
  LET searchDir == ExtractPath(repo, DefaultBranch)
      found == walkDir(searchDir, items)
      one(file) ==
        IF file.size > MaxFileSize \/ SeemsBinary(file.content) THEN <<>>
        ELSE LocalFileMatches(repo, RelativePath(searchDir, file.path), file.content,
                              keywords)
  IN Flatten([n \in 1..Len(found) |-> one(found[n])])

\* lines 239-262, all listings received: every file of the repository
RECURSIVE Listed(_, _)
Listed(dir, items) ==
  IF items = <<>> THEN <<>>
  ELSE LET item == Head(items)
           path == IF dir = <<>> THEN item.name ELSE PathJoin(dir, item.name)
           here == IF item.type = "dir" THEN Listed(path, item.items)
                   ELSE <<[type |-> "file", name |-> item.name, path |-> path,
                           size |-> item.size, content |-> item.content]>>
       IN here \o Listed(dir, Tail(items))

\* lines 284-306: the lines of one file whose content has arrived, one Match for
\* every keyword found in a line; the content is written as the text it encodes
RemoteFileMatches(repo, file, keywords) ==
  IF Falsy(file.content) THEN <<>>
  ELSE LET lines == Split(file.content, "\n")
           hits(i) == SelectSeq(keywords, LAMBDA kw : RemoteMatches(lines[i + 1], kw))
       IN Flatten([n \in 1..Len(lines) |->
                     [k \in 1..Len(hits(n - 1)) |->
                        Match(repo, file.path, lines, n - 1)]])

\* fetchIssuesLocally from line 748 to line 835: the whole scan, without an await
ScanLocally ==
  /\ scan.pc = "scanning"
  /\ ~scan.walked
  /\ LET searchDir == ExtractPath(scan.repo, DefaultBranch)
         found == walkDir(searchDir, scan.items)
     IN scan' = [scan EXCEPT
                   !.walked = TRUE,
                   !.found = [n \in 1..Len(found) |-> RelativePath(searchDir, found[n].path)],
                   !.local = LocalScan(scan.repo, scan.items, scan.keywords)]
  /\ UNCHANGED program
  /\ UNCHANGED block

\* fetchIssues, one turn of the loop at line 267: the next file is skipped, or its
\* content is requested and, once it has arrived, searched
ScanRemoteFile ==
  /\ scan.pc = "scanning"
  /\ scan.listed # <<>>
  /\ LET file == Head(scan.listed)
     IN scan' = [scan EXCEPT
                   !.listed = Tail(@),
                   !.fetched = IF Candidate(file) THEN Append(@, file.path) ELSE @,
                   !.remote = IF Candidate(file)
                              THEN @ \o RemoteFileMatches(scan.repo, file, scan.keywords)
                              ELSE @]
  /\ UNCHANGED program
  /\ UNCHANGED block

\* the texts of MaxContentLen characters or less
ScanChars == {"T", "t", ":", " ", "\n", Nul}

RECURSIVE Texts(_)
Texts(n) ==
  IF n = 0 THEN {<<>>}
  ELSE LET shorter == Texts(n - 1)
       IN shorter \cup {Append(t, c) : t \in {u \in shorter : Len(u) = n - 1}, c \in ScanChars}

ScanKeywordLists == { << <<"T">> >>, << <<"t">>, <<"T">> >>, << <<"T">>, <<"T">> >> }

\* snapshots of two files, the first with any text
TextSnapshots ==
  { << File(<<"a", ".", "t", "s">>, c1, Len(c1)),
       Dir(<<"s">>, << File(<<"b", ".", "t", "s">>, c2, Len(c2)) >>) >> :
      c1 \in Texts(MaxContentLen), c2 \in { <<"T", ":">>, <<"T", ":", Nul>> } }

DirNames == SkippedDirs \cup { <<".", "g", "i", "t", "h", "u", "b">>, <<"s">> }

\* snapshots of directories within directories, with a large file and an image
DirSnapshots ==
  { << Dir(d1, << File(<<"g", ".", "t", "s">>, <<"T", ":">>, 2),
                  Dir(d2, << File(<<"h", ".", "t", "s">>, <<"t">>, 1) >>) >>),
       File(<<"e", ".", "t", "s">>, <<"T", ":">>, MaxFileSize),
       File(<<"f", ".", "t", "s">>, <<"x">>, MaxFileSize + 1),
       File(<<"p", ".", "p", "n", "g">>, <<"T", ":">>, 2) >> :
      d1 \in DirNames, d2 \in DirNames }

InitScan ==
  /\ run = "scan"
  /\ settings = [githubToken |-> <<>>, cacheEnabled |-> FALSE, cacheExpiry |-> 30,
                 tempDir |-> <<"t">>]
  /\ cache = EmptyMap
  /\ repoCache = EmptyMap
  /\ now = 0
  /\ inv = [i \in Slots |-> IdleInv]
  /\ started = 0
  /\ head = "c1"
  /\ files = EmptyMap
  /\ trees = EmptyMap
  /\ acq = EmptyMap
  /\ block = NoBlock
  /\ \E items \in TextSnapshots \cup DirSnapshots, keywords \in ScanKeywordLists :
       scan = [pc |-> "scanning", repo |-> <<"a", "/", "b">>, keywords |-> keywords,
               items |-> items, listed |-> Listed(<<>>, items), fetched |-> <<>>,
               walked |-> FALSE, found |-> <<>>, local |-> <<>>, remote |-> <<>>,
               archive |-> <<>>]

NextScan == ScanLocally \/ ScanRemoteFile

SpecScan == InitScan /\ [][NextScan]_vars

(***************************************************************************)
(* Properties of the scan, under SpecScan.                                 *)
(***************************************************************************)
Range(seq) == {seq[k] : k \in 1..Len(seq)}

\* the files of the snapshot, and the lines of a file
SnapshotFiles == Range(Listed(<<>>, scan.items))

Lines(file) == Split(file.content, "\n")

\* the names of the directories above a file
DirsAbove(file) ==
  LET parts == Split(file.path, "/") IN {parts[k] : k \in 1..(Len(parts) - 1)}

\* t occurs in s at some position
Occurs(s, t) ==
  \E k \in 0..(Len(s) - Len(t)) : \A j \in 1..Len(t) : s[k + j] = t[j]

\* t occurs in s at some position, letters compared without regard to case
OccursIgnoringCase(s, t) ==
  \E k \in 0..(Len(s) - Len(t)) : \A j \in 1..Len(t) : LowerChar(s[k + j]) = LowerChar(t[j])

\* the local scanner reads the lines of the file: it is below no directory that
\* walkDir leaves out, it is not too large and it does not seem binary
ReadLocally(file) ==
  /\ scan.walked
  /\ \A d \in DirsAbove(file) : d \notin SkippedDirs /\ ~StartsWith(d, <<".">>)
  /\ file.size <= MaxFileSize
  /\ \A k \in 1..Len(file.content) : file.content[k] # Nul

\* the remote scanner has received the content of the file
ReadRemotely(file) == file.path \in Range(scan.fetched)

HasMatch(matches, file, i) ==
  \E m \in Range(matches) : m.file = file.path /\ m.line = i + 1

\* C14: the local scanner reports a line iff the line, in lower case, contains a
\* keyword in lower case; the remote scanner reports a line iff the line contains
\* a keyword followed by ':' in the same case.
C14_LineMatching ==
  \A file \in SnapshotFiles : \A i \in 0..(Len(Lines(file)) - 1) :
    /\ ReadLocally(file) =>
         (HasMatch(scan.local, file, i) <=>
            \E kw \in Range(scan.keywords) : OccursIgnoringCase(Lines(file)[i + 1], kw))
    /\ ReadRemotely(file) =>
         (HasMatch(scan.remote, file, i) <=>
            \E kw \in Range(scan.keywords) : Occurs(Lines(file)[i + 1], kw \o <<":">>))

\* a line with the keyword in another case and without ':' is reported by the local
\* scanner and not by the remote one
C14_Witness ==
  \E file \in SnapshotFiles : \E i \in 0..(Len(Lines(file)) - 1) :
    /\ ReadLocally(file) /\ ReadRemotely(file)
    /\ scan.keywords = << <<"T">> >>
    /\ Lines(file)[i + 1] = <<"t", " ">>
    /\ HasMatch(scan.local, file, i)
    /\ ~HasMatch(scan.remote, file, i)

\* s without the white space at its ends
Trimmed(s) ==
  LET ks == {k \in 1..Len(s) : s[k] \notin WhiteSpace}
  IN IF ks = {} THEN <<>>
     ELSE SubSeq(s, CHOOSE k \in ks : \A j \in ks : k <= j,
                    CHOOSE k \in ks : \A j \in ks : j <= k)

\* what a Match for line n (from 1) of the file holds
WellFormed(m, file, n) ==
  /\ n \in 1..Len(Lines(file))
  /\ m.content = IF n < Len(Lines(file))
                 THEN Trimmed(Lines(file)[n]) \o <<"\n">> \o Trimmed(Lines(file)[n + 1])
                 ELSE Trimmed(Lines(file)[n])
  /\ n < 10
  /\ m.url = GithubUrl \o scan.repo \o Blob \o DefaultBranch \o <<"/">> \o file.path
               \o <<"#", "L", Digits[n + 1]>>

NumberOfMatches(matches, file, n) ==
  Cardinality({k \in 1..Len(matches) : matches[k].file = file.path /\ matches[k].line = n})

\* C15: every Match of either scanner names a file of the snapshot and, for the
\* line of index i (from 0) it reports, has line = i + 1, at most the number of
\* lines of the file, content = that line trimmed, followed by a newline and the
\* next line trimmed when there is a next line, and url = https://github.com/
\* <owner>/<name>/blob/<branch>/<path>#L<i+1>; a line in which one keyword is
\* found gives exactly one Match.
C15_MatchFields ==
  /\ \A m \in Range(scan.local) \cup Range(scan.remote) :
       \E file \in SnapshotFiles : m.file = file.path /\ WellFormed(m, file, m.line)
  /\ \A file \in SnapshotFiles : \A n \in 1..Len(Lines(file)) :
       /\ NumberOfMatches(scan.local, file, n) <= 1
       /\ ReadRemotely(file) =>
            NumberOfMatches(scan.remote, file, n)
              = Cardinality({k \in 1..Len(scan.keywords) :
                               Occurs(Lines(file)[n], scan.keywords[k] \o <<":">>)})

\* both scanners have reported lines, one of them a line with white space before
\* the keyword and an empty line after it
C15_Witness ==
  /\ \E m \in Range(scan.local) :
       m.line = 1 /\ m.content = <<"T", "\n">> /\ m.file = <<"a", ".", "t", "s">>
         /\ \E file \in SnapshotFiles : file.path = m.file /\ Lines(file)[1] = <<" ", "T">>
  /\ \E m \in Range(scan.remote) : m.line = 1 /\ m.file = <<"s", "/", "b", ".", "t", "s">>

\* the file is among those walkDir returned
Found(file) == file.path \in Range(scan.found)

\* C16 as claimed: after the walk, the files found are those below no directory
\* named .git, node_modules, build, dist or target, and no Match names another.
C16_OnlyNamedDirsSkipped ==
  scan.walked =>
    \A file \in SnapshotFiles :
      /\ Found(file) <=> DirsAbove(file) \cap SkippedDirs = {}
      /\ DirsAbove(file) \cap SkippedDirs # {} =>
           \A m \in Range(scan.local) : m.file # file.path

\* C16: after the walk, the files found are those below no directory named
\* node_modules, build, dist or target and below no directory whose name begins
\* with '.', and no Match names another file.
C16_SkippedAndHiddenDirs ==
  scan.walked =>
    \A file \in SnapshotFiles :
      LET left == \E d \in DirsAbove(file) : d \in SkippedDirs \/ d[1] = "."
      IN /\ Found(file) <=> ~left
         /\ left => \A m \in Range(scan.local) : m.file # file.path

\* a walk that went into a directory, left out its hidden subdirectory and left
\* out nothing else
C16_Witness ==
  /\ scan.walked
  /\ \E file \in SnapshotFiles :
       /\ DirsAbove(file) = { <<"s">>, <<".", "g", "i", "t", "h", "u", "b">> }
       /\ ~Found(file)
  /\ \E file \in SnapshotFiles : DirsAbove(file) = { <<"s">> } /\ Found(file)
  /\ \E m \in Range(scan.local) : m.file = <<"s", "/", "g", ".", "t", "s">>

HasNul(file) == \E k \in 1..Len(file.content) : file.content[k] = Nul

\* C17: after the local scan, no Match names a file whose content has a NUL
\* character, and every line with a keyword of the other files that are read is
\* reported, whether the file comes before or after such a file.
C17_NulFileSkippedScanGoesOn ==
  scan.walked =>
    \A file \in SnapshotFiles :
      HasNul(file) =>
        /\ \A m \in Range(scan.local) : m.file # file.path
        /\ \A other \in SnapshotFiles : \A i \in 0..(Len(Lines(other)) - 1) :
             /\ ReadLocally(other)
             /\ \E kw \in Range(scan.keywords) : OccursIgnoringCase(Lines(other)[i + 1], kw)
             => HasMatch(scan.local, other, i)

\* the first file has a keyword and a NUL character and is not reported; the file
\* after it is
C17_Witness ==
  /\ scan.walked
  /\ \E file \in SnapshotFiles :
       /\ file.path = <<"a", ".", "t", "s">>
       /\ file.content = <<"T", Nul>>
  /\ \A m \in Range(scan.local) : m.file = <<"s", "/", "b", ".", "t", "s">>
  /\ scan.local # <<>>

(***************************************************************************)
(* The code block processor up to its first await: the reading of the      *)
(* block's lines.                                                          *)
(***************************************************************************)
MaxKeywordsLen == 4

\* DEFAULT_SETTINGS.defaultKeywords
DefaultKeywords == << <<"T", "O", "D", "O">>, <<"F", "I", "X", "M", "E">> >>

RepoPrefix == <<"r", "e", "p", "o", ":">>

KeywordsPrefix == <<"k", "e", "y", "w", "o", "r", "d", "s", ":">>

ForceApiPrefix == <<"f", "o", "r", "c", "e", "-", "a", "p", "i", ":">>

\* String.prototype.substring(n)
Substring(s, n) == SubSeq(s, n + 1, Len(s))

\* String.prototype.split(/\s+/)
RECURSIVE SplitSpacesFrom(_, _)
SplitSpacesFrom(s, cur) ==
  IF s = <<>> THEN <<cur>>
  ELSE IF Head(s) \in WhiteSpace THEN <<cur>> \o SplitSpacesFrom(TrimStart(Tail(s)), <<>>)
  ELSE SplitSpacesFrom(Tail(s), Append(cur, Head(s)))

SplitSpaces(s) == SplitSpacesFrom(s, <<>>)

\* lines 83-93: one line of the block, r being what the lines before it gave
ParseLine(r, line) ==
  IF StartsWith(line, RepoPrefix)
  THEN [r EXCEPT !.repo = Trim(Substring(line, Len(RepoPrefix)))]
  ELSE IF StartsWith(line, KeywordsPrefix)
  THEN LET keywordString == Trim(Substring(line, Len(KeywordsPrefix)))
       IN [r EXCEPT !.keywords = SplitSpaces(keywordString)]
  ELSE IF StartsWith(line, ForceApiPrefix)
  THEN LET forceApiString == ToLowerCase(Trim(Substring(line, Len(ForceApiPrefix))))
       IN [r EXCEPT !.forceApi = (forceApiString = <<"t", "r", "u", "e">>)]
  ELSE r

RECURSIVE ParseLines(_, _)
ParseLines(r, lines) ==
  IF lines = <<>> THEN r ELSE ParseLines(ParseLine(r, Head(lines)), Tail(lines))

\* lines 78-98: the processor reads the block and stops if it names no repository
ParseBlock ==
  /\ block.pc = "source"
  /\ LET r == ParseLines([block EXCEPT !.repo = <<>>, !.keywords = DefaultKeywords,
                                       !.forceApi = FALSE],
                         Split(block.source, "\n"))
     IN block' = [r EXCEPT !.pc = IF Falsy(r.repo) THEN "norepo" ELSE "parsed"]
  /\ UNCHANGED program
  /\ UNCHANGED scan

\* the texts of MaxKeywordsLen characters or less after 'keywords:'
KeywordChars == {"T", "F", " ", "#"}

RECURSIVE KeywordTexts(_)
KeywordTexts(n) ==
  IF n = 0 THEN {<<>>}
  ELSE LET shorter == KeywordTexts(n - 1)
       IN shorter \cup {Append(t, c) : t \in {u \in shorter : Len(u) = n - 1},
                                       c \in KeywordChars}

\* the usage example of the README
ReadmeKeywords ==
  <<" ", "T", "O", "D", "O", " ", "F", "I", "X", "M", "E", " ", "B", "U", "G", " ", "#",
  " ", "o", "p", "t", "i", "o", "n", "a", "l", ",", " ", "d", "e", "f", "a", "u", "l",
  "t", "s", " ", "t", "o", " ", "T", "O", "D", "O", " ", "F", "I", "X", "M", "E">>

RepoLines == { <<>>, RepoPrefix \o <<" ", "a", "/", "b", "\n">> }

ForceApiLines ==
  { <<>>, <<"\n">> \o ForceApiPrefix \o <<" ", "T", "r", "u", "e">>,
    <<"\n">> \o ForceApiPrefix \o <<" ", "f", "a", "l", "s", "e", " ", "#", " ", "x">> }

Sources ==
  { r \o k \o f :
      r \in RepoLines,
      k \in {<<>>} \cup {KeywordsPrefix \o t : t \in KeywordTexts(MaxKeywordsLen) \cup {ReadmeKeywords}},
      f \in ForceApiLines }

InitParse ==
  /\ run = "parse"
  /\ settings = [githubToken |-> <<>>, cacheEnabled |-> FALSE, cacheExpiry |-> 30,
                 tempDir |-> <<"t">>]
  /\ cache = EmptyMap
  /\ repoCache = EmptyMap
  /\ now = 0
  /\ inv = [i \in Slots |-> IdleInv]
  /\ started = 0
  /\ head = "c1"
  /\ files = EmptyMap
  /\ trees = EmptyMap
  /\ acq = EmptyMap
  /\ scan = NoScan
  /\ \E source \in Sources :
       block = [pc |-> "source", source |-> source, repo |-> <<>>, keywords |-> <<>>,
                forceApi |-> FALSE]

NextParse == ParseBlock

SpecParse == InitParse /\ [][NextParse]_vars

(***************************************************************************)
(* Properties of the reading of the block, under SpecParse.                *)
(***************************************************************************)
\* the line of the block that begins with 'keywords:', without that beginning
KeywordsText ==
  LET lines == Split(block.source, "\n")
      ks == {k \in 1..Len(lines) : StartsWith(lines[k], KeywordsPrefix)}
  IN IF ks = {} THEN Undefined
     ELSE Substring(lines[CHOOSE k \in ks : TRUE], Len(KeywordsPrefix))

\* s up to its first '#'
BeforeComment(s) ==
  LET hs == {k \in 1..Len(s) : s[k] = "#"}
  IN IF hs = {} THEN s ELSE SubSeq(s, 1, (CHOOSE k \in hs : \A j \in hs : k <= j) - 1)

\* the words of s: its longest stretches without white space, in order
RECURSIVE Words(_)
Words(s) ==
  LET t == TrimStart(s)
      ends == {k \in 1..Len(t) : t[k] \in WhiteSpace}
      n == IF ends = {} THEN Len(t) ELSE (CHOOSE k \in ends : \A j \in ends : k <= j) - 1
  IN IF t = <<>> THEN <<>> ELSE <<SubSeq(t, 1, n)>> \o Words(SubSeq(t, n + 1, Len(t)))

\* C19: once the block is read, the keywords are the words of its 'keywords:' line
\* before the first '#', when there is such a word; the README's example gives
\* TODO, FIXME, BUG.
C19_KeywordsWithoutComment ==
  block.pc \in {"parsed", "norepo"} /\ KeywordsText # Undefined =>
    /\ Words(BeforeComment(KeywordsText)) # <<>> =>
         block.keywords = Words(BeforeComment(KeywordsText))
    /\ KeywordsText = ReadmeKeywords =>
         block.keywords = << <<"T", "O", "D", "O">>, <<"F", "I", "X", "M", "E">>, <<"B", "U", "G">> >>

(***************************************************************************)
(* Properties of the cache key, under SpecKeys.                            *)
(***************************************************************************)
\* s and t hold the same keywords the same number of times
Permutation(s, t) ==
  /\ Len(s) = Len(t)
  /\ \A x \in Range(s) \cup Range(t) :
       Cardinality({k \in 1..Len(s) : s[k] = x}) = Cardinality({k \in 1..Len(t) : t[k] = x})

\* the unexpired entries that hold results for the repository
FreshResultsFor(repo) ==
  {k \in DOMAIN cache :
     /\ cache[k].data.tag = "results"
     /\ cache[k].data.repo = repo
     /\ now - cache[k].timestamp < settings.cacheExpiry * 60000}

\* C18 as claimed: an invocation is served from the cache whenever an unexpired
\* entry holds results for its repository and a permutation of its keywords.
C18_PermutationsShareEntry ==
  [][\A i \in Slots :
       ReadsCache(i) /\ settings.cacheEnabled =>
         \A k \in FreshResultsFor(inv'[i].repo) :
           Permutation(cache[k].data.keywords, inv'[i].keywords) =>
             inv'[i].cacheServed # "no"]_vars

\* C18: an invocation is served from the cache exactly when an unexpired entry
\* holds results for its repository and its keywords in the same order, and then
\* it returns that entry's results; an entry for the keywords in another order
\* is not used.
C18_SameOrderSharesEntry ==
  [][\A i \in Slots :
       ReadsCache(i) /\ settings.cacheEnabled =>
         LET same == {k \in FreshResultsFor(inv'[i].repo) :
                        cache[k].data.keywords = inv'[i].keywords}
         IN /\ inv'[i].cacheServed # "no" <=> same # {}
            /\ \A k \in same : inv'[i].out = cache[k].data]_vars

\* an invocation for F, T acquires although the entry for T, F is in the cache,
\* and another invocation for T, F has been served from that entry
C18_Witness ==
  \E i, j \in Slots :
    /\ inv[i].keywords = << <<"F">>, <<"T">> >>
    /\ inv[i].pc \in {"L_get", "R_get"}
    /\ inv[i].cacheServed = "no"
    /\ inv[j].keywords = << <<"T">>, <<"F">> >>
    /\ inv[j].cacheServed # "no"
    /\ \E k \in FreshResultsFor(inv[i].repo) : cache[k].data.keywords = inv[j].keywords
    /\ FreshResultsFor(inv[i].repo) = {CacheKey(inv[j].repo, inv[j].keywords)}

(***************************************************************************)
(* Properties of the cache writes, under SpecCache.                        *)
(***************************************************************************)
\* this step takes invocation i to Done
ReachesDone(i) == inv[i].pc # "done" /\ inv'[i].pc = "done"

\* with caching disabled, no step changes the cache and no call is served from it
DisabledCacheUntouched ==
  ~settings.cacheEnabled =>
    /\ cache' = cache
    /\ \A i \in Slots : ReadsCache(i) => inv'[i].cacheServed = "no"

\* C20 as claimed: an invocation that reaches Done with caching enabled leaves
\* the entry of its key holding the results it returns and the current time; with
\* caching disabled nothing reads or writes the cache.
C20_DoneWritesEntryNow ==
  [][/\ \A i \in Slots :
          ReachesDone(i) /\ settings.cacheEnabled =>
            LET key == CacheKey(inv'[i].repo, inv'[i].keywords)
            IN /\ key \in DOMAIN cache'
               /\ cache'[key] = [timestamp |-> now, data |-> inv'[i].out]
     /\ DisabledCacheUntouched]_vars

\* C20: an invocation that reaches Done with caching enabled and results it has
\* acquired leaves the entry of its key holding these results and the current
\* time; a call served from the cache leaves the cache as it is; with caching
\* disabled nothing reads or writes the cache.
C20_AcquiredResultsWrittenNow ==
  [][/\ \A i \in Slots :
          /\ ReachesDone(i) /\ settings.cacheEnabled /\ inv'[i].cacheServed = "no" =>
               LET key == CacheKey(inv'[i].repo, inv'[i].keywords)
               IN /\ key \in DOMAIN cache'
                  /\ cache'[key] = [timestamp |-> now, data |-> inv'[i].out]
          /\ ReadsCache(i) /\ inv'[i].cacheServed # "no" => cache' = cache
     /\ DisabledCacheUntouched]_vars

\* with caching enabled one invocation is Done with results written at the present
\* time, some time after the start, and caching has been disabled since without
\* the entry changing
C20_Witness ==
  \E i \in Slots :
    LET key == CacheKey(inv[i].repo, inv[i].keywords)
    IN /\ inv[i].pc = "done"
       /\ inv[i].cacheServed = "no"
       /\ key \in DOMAIN cache
       /\ cache[key] = [timestamp |-> now, data |-> inv[i].out]
       /\ now > 0
       /\ ~settings.cacheEnabled

(***************************************************************************)
(* Properties of the files left by an acquisition, under SpecSignature and *)
(* SpecSnapshot.                                                           *)
(***************************************************************************)
\* this step ends the download or the extraction of invocation i with an error
AcquisitionFails(i) ==
  inv[i].pc \in {"L_dl", "L_pipe"} /\ ~inv[i].localFailed /\ inv'[i].localFailed

\* C21: when the download or the extraction of an invocation fails, no file is
\* left at the download path.
C21_NoArchiveLeftAfterFailure ==
  [][\A i \in Slots :
       AcquisitionFails(i) => DownloadPath(inv[i].repo, DefaultBranch) \notin DOMAIN files']_vars

(***************************************************************************)
(* Properties of the choice of files by the remote scanner, under SpecScan.*)
(***************************************************************************)
\* the remote scanner has dealt with the file: it has skipped it or fetched it
PassedRemotely(file) == \A k \in 1..Len(scan.listed) : scan.listed[k].path # file.path

\* the name ends with '.' and one of the extensions, in either case
AllowedName(name) ==
  \E e \in Extensions :
    /\ Len(name) > Len(e)
    /\ name[Len(name) - Len(e)] = "."
    /\ \A j \in 1..Len(e) : LowerChar(name[Len(name) - Len(e) + j]) = e[j]

\* C22 as claimed: the content of a file is fetched only if its name has an
\* allowed extension and its size is below 500,000 bytes.
C22_FetchedOnlyBelowCeiling ==
  \A file \in SnapshotFiles :
    ReadRemotely(file) => AllowedName(file.name) /\ file.size < 500000

\* C22: of the files the remote scanner has dealt with, those whose content was
\* fetched are the ones with an allowed extension and a size of 500,000 bytes
\* or less.
C22_FetchedUpToCeiling ==
  \A file \in SnapshotFiles :
    PassedRemotely(file) =>
      (ReadRemotely(file) <=> AllowedName(file.name) /\ file.size <= 500000)

\* a file of 500,000 bytes has been fetched and reported; one of 500,001 bytes
\* and an image have been passed over
C22_Witness ==
  /\ \E file \in SnapshotFiles :
       file.size = 500000 /\ ReadRemotely(file) /\ HasMatch(scan.remote, file, 0)
  /\ \E file \in SnapshotFiles :
       file.size = 500001 /\ PassedRemotely(file) /\ ~ReadRemotely(file)
  /\ \E file \in SnapshotFiles :
       ~AllowedName(file.name) /\ PassedRemotely(file) /\ ~ReadRemotely(file)

(***************************************************************************)
(* Properties of the local scanner's loop over the keywords, under         *)
(* SpecScan.                                                               *)
(***************************************************************************)
\* how many of the keywords of the list, counted with repetition, the line holds
KeywordsInLine(line) ==
  Cardinality({k \in 1..Len(scan.keywords) : OccursIgnoringCase(line, scan.keywords[k])})

\* C23: after the local scan, no line of a file has two Matches, and a line of a
\* file that is read which holds several of the keywords, or a keyword listed
\* twice, has exactly one.
C23_OneMatchPerLine ==
  scan.walked =>
    \A file \in SnapshotFiles : \A n \in 1..Len(Lines(file)) :
      /\ NumberOfMatches(scan.local, file, n) <= 1
      /\ ReadLocally(file) /\ KeywordsInLine(Lines(file)[n]) >= 2 =>
           NumberOfMatches(scan.local, file, n) = 1

\* a line with two keywords and a line with a keyword listed twice have been
\* scanned, and two lines of one file have a Match each
C23_Witness ==
  /\ scan.walked
  /\ \E file \in SnapshotFiles : \E n \in 1..Len(Lines(file)) :
       /\ ReadLocally(file)
       /\ KeywordsInLine(Lines(file)[n]) = 2
       /\ NumberOfMatches(scan.local, file, n) = 1
       /\ scan.keywords = << <<"T">>, <<"T">> >>
       /\ n = 2
       /\ NumberOfMatches(scan.local, file, 1) = 1

(***************************************************************************)
(* Properties of what the cache returns, under SpecCollide.                *)
(***************************************************************************)
\* C24: results served from the cache to an invocation were acquired for its
\* repository and its keyword list, and no entry that holds results has the key
\* of the rate-limit sentinel of a repository.
C24_CachedResultsAreForSamePair ==
  [][/\ \A i \in Slots :
          ReadsCache(i) /\ inv'[i].cacheServed # "no" =>
            /\ inv'[i].out.repo = inv'[i].repo
            /\ inv'[i].out.keywords = inv'[i].keywords
     /\ \A k \in DOMAIN cache' : \A repo \in Scope.repos :
          cache'[k].data.tag = "results" => k # RateLimitKey(repo)]_vars

(***************************************************************************)
(* Properties of the scanner behind cached results, under SpecFlow.        *)
(***************************************************************************)
\* C25: results that fetchIssues returns from the cache were stored by
\* fetchIssues, and results that fetchIssuesLocally returns from the cache were
\* stored by fetchIssuesLocally; so what is rendered with force-api set comes
\* from the remote scanner.
C25_CachedResultsFromSameScanner ==
  [][\A i \in Slots :
       /\ ReadsCache(i) /\ inv'[i].cacheServed = "remote" => inv'[i].out.by = "remote"
       /\ ReadsCache(i) /\ inv'[i].cacheServed = "local" => inv'[i].out.by = "local"
       /\ inv'[i].pc = "done" /\ inv'[i].forceApi => inv'[i].out.by = "remote"]_vars

(***************************************************************************)
(* extractZip into a directory that holds an earlier snapshot, and the     *)
(* scan that follows.                                                      *)
(***************************************************************************)
\* zip.extractAllTo(destPath, true): every entry of the archive is written,
\* over the file of the same path if there is one; nothing is removed
RECURSIVE Overlay(_, _)
RECURSIVE PutEntry(_, _)
PutEntry(items, e) ==
  IF \E k \in 1..Len(items) : items[k].name = e.name
  THEN [k \in 1..Len(items) |->
          IF items[k].name # e.name THEN items[k]
          ELSE IF e.type = "dir" /\ items[k].type = "dir"
               THEN Dir(e.name, Overlay(items[k].items, e.items))
               ELSE e]
  ELSE Append(items, e)

Overlay(items, entries) ==
  IF entries = <<>> THEN items ELSE Overlay(PutEntry(items, Head(entries)), Tail(entries))

\* lines 733-737, after the download: the archive of the new commit is extracted
\* into the directory of the repository
ExtractZip ==
  /\ scan.pc = "extracting"
  /\ scan' = [scan EXCEPT !.pc = "scanning", !.items = Overlay(@, scan.archive)]
  /\ UNCHANGED program
  /\ UNCHANGED block

\* snapshots of a repository at two commits: files come, go and change
TopFiles ==
  { <<>>, << File(<<"a", ".", "t", "s">>, <<"T", ":">>, 2) >>,
    << File(<<"a", ".", "t", "s">>, <<"x">>, 1) >> }

SubDirs ==
  { <<>>, << Dir(<<"s">>, << File(<<"b", ".", "t", "s">>, <<"T", ":">>, 2) >>) >>,
    << Dir(<<"s">>, << File(<<"b", ".", "t", "s">>, <<"t">>, 1),
                       File(<<"c", ".", "t", "s">>, <<"T">>, 1) >>) >> }

CommitSnapshots == { top \o sub : top \in TopFiles, sub \in SubDirs }

InitExtract ==
  /\ run = "extract"
  /\ settings = [githubToken |-> <<>>, cacheEnabled |-> FALSE, cacheExpiry |-> 30,
                 tempDir |-> <<"t">>]
  /\ cache = EmptyMap
  /\ repoCache = EmptyMap
  /\ now = 0
  /\ inv = [i \in Slots |-> IdleInv]
  /\ started = 0
  /\ head = "c2"
  /\ files = EmptyMap
  /\ trees = EmptyMap
  /\ acq = EmptyMap
  /\ block = NoBlock
  /\ \E before \in CommitSnapshots, after \in CommitSnapshots,
        keywords \in ScanKeywordLists :
       scan = [pc |-> "extracting", repo |-> <<"a", "/", "b">>, keywords |-> keywords,
               items |-> before, listed |-> <<>>, fetched |-> <<>>,
               walked |-> FALSE, found |-> <<>>, local |-> <<>>, remote |-> <<>>,
               archive |-> after]

NextExtract == ExtractZip \/ ScanLocally

SpecExtract == InitExtract /\ [][NextExtract]_vars

(***************************************************************************)
(* Properties of the scan after a new download, under SpecExtract.         *)
(***************************************************************************)
\* the paths of the files of the archive
ArchivePaths == {f.path : f \in Range(Listed(<<>>, scan.archive))}

\* C26: after the archive of the new commit has been extracted and the directory
\* scanned, every Match is for a file of that archive.
C26_MatchesOnlyFromNewSnapshot ==
  scan.walked => \A m \in Range(scan.local) : m.file \in ArchivePaths

(***************************************************************************)
(* Properties of the snapshot records and the directories, under           *)
(* SpecRelocate.                                                           *)
(***************************************************************************)
\* this step is getBranch answering invocation i, which then skips the download
SkipsDownload(i) ==
  /\ inv[i].pc = "L_branch"
  /\ inv'[i] # inv[i]
  /\ inv'[i].downloads = inv[i].downloads
  /\ UpToDate(inv[i].repo, head)

\* C27: when an invocation skips the download, the directory it scans is the
\* extractPath of the repository's record, and this directory exists.
C27_TrustedSnapshotIsOnDisk ==
  [][\A i \in Slots :
       SkipsDownload(i) =>
         /\ ExtractPath(inv[i].repo, DefaultBranch) = repoCache[inv[i].repo].extractPath
         /\ repoCache[inv[i].repo].extractPath \in DOMAIN trees
         /\ inv'[i].scans = inv[i].scans + 1]_vars

(***************************************************************************)
(* Properties of the snapshot record's creation, under SpecSignature.      *)
(***************************************************************************)
\* this step ends the acquisition of invocation i with the archive downloaded
\* and extracted
AcquisitionSucceeds(i) ==
  /\ inv[i].pc = "L_pipe"
  /\ inv'[i].dl = "resolved"
  /\ inv'[i].extracts = inv[i].extracts + 1
  /\ ExtractPath(inv[i].repo, DefaultBranch) \in DOMAIN trees'

\* C28: the record map changes only in a step that ends an acquisition whose
\* download and extraction both succeeded, and then it is that repository's
\* record which is written, for that acquisition's commit; a failing
\* acquisition leaves the map as it was, so that the commit is still not
\* recorded and the next invocation downloads again.
C28_RecordOnlyAfterAcquisition ==
  [][/\ repoCache' # repoCache =>
          \E i \in Slots :
            /\ AcquisitionSucceeds(i)
            /\ DOMAIN repoCache' = DOMAIN repoCache \cup {inv[i].repo}
            /\ repoCache'[inv[i].repo].latestCommit = inv[i].commit
            /\ \A k \in DOMAIN repoCache \ {inv[i].repo} : repoCache'[k] = repoCache[k]
     /\ \A i \in Slots :
          AcquisitionFails(i) =>
            /\ repoCache' = repoCache
            /\ ~(/\ inv[i].repo \in DOMAIN repoCache'
                 /\ repoCache'[inv[i].repo].latestCommit = inv[i].commit)]_vars

\* the archive of an invocation was downloaded with a good signature, its
\* extraction failed, and the repository has no record
C28_Witness ==
  \E i \in Slots :
    /\ inv[i].localFailed
    /\ inv[i].dl = "resolved"
    /\ inv[i].extracts = 0
    /\ inv[i].repo \notin DOMAIN repoCache

(***************************************************************************)
(* Properties of the expiry setting, under SpecExpiry.                     *)
(***************************************************************************)
\* C29: an entry is not returned once its age has reached the expiry that was
\* in force when it was written, whatever the setting has become since.
C29_LifetimeFixedAtWrite ==
  [][\A i \in Slots :
       ReadsCache(i) =>
         LET key == CacheKey(inv'[i].repo, inv'[i].keywords)
         IN (/\ key \in DOMAIN cache
             /\ key \in DOMAIN acq
             /\ acq[key].succeeded = cache[key].timestamp
             /\ now - cache[key].timestamp >= acq[key].expiry * 60000)
            => inv'[i].cacheServed = "no"]_vars

(***************************************************************************)
(* Properties of the keywords handed to the scanners, under SpecParse.     *)
(***************************************************************************)
\* C30: once a block that names a repository is read, none of the keywords
\* handed to the scanners is the empty string.
C30_NoEmptyKeyword ==
  block.pc = "parsed" =>
    \A k \in 1..Len(block.keywords) : block.keywords[k] # <<>>

====
